---- MODULE Spec2Model ----
(***************************************************************************)
(* code-to-prompt: the traversal engine (src/lib/processor.ts), its        *)
(* concurrency limiter, the ignore-rule loader (src/cli/ignore.ts), the    *)
(* file tree (src/lib/fileTree.ts), the common ancestor                    *)
(* (src/lib/pathUtils.ts), the printers and the command's run function     *)
(* (src/cli/main.ts, src/cli/tree.ts).                                     *)
(*                                                                         *)
(* Strings are sequences of one-character strings, a path is the sequence  *)
(* of its segments below the filesystem root (the form path.resolve        *)
(* produces), so that basename, extname, toLowerCase, relative and the     *)
(* glob matchers are computed and not assumed.                             *)
(***************************************************************************)
EXTENDS Integers, Sequences, FiniteSets, TLC

(***************************************************************************)
(* Characters and strings                                                  *)
(***************************************************************************)
UpperChars == <<"A","B","C","D","E","F","G","H","I","J","K","L","M",
                "N","O","P","Q","R","S","T","U","V","W","X","Y","Z">>
LowerChars == <<"a","b","c","d","e","f","g","h","i","j","k","l","m",
                "n","o","p","q","r","s","t","u","v","w","x","y","z">>

Digits == <<"0", "1", "2", "3", "4", "5", "6", "7", "8", "9">>

\* String.prototype.toLowerCase on one character
LowerChar(c) ==
    IF \E i \in 1..Len(UpperChars) : UpperChars[i] = c
    THEN LowerChars[CHOOSE i \in 1..Len(UpperChars) : UpperChars[i] = c]
    ELSE c

\* String.prototype.toLowerCase
toLowerCase(s) == [i \in 1..Len(s) |-> LowerChar(s[i])]

\* String.prototype.startsWith for a one-character prefix
startsWith(s, c) == Len(s) > 0 /\ s[1] = c

\* String.prototype.trim (spaces only)
RECURSIVE trimStart(_)
trimStart(s) == IF s # <<>> /\ Head(s) = " " THEN trimStart(Tail(s)) ELSE s
RECURSIVE trimEnd(_)
trimEnd(s) ==
    IF s # <<>> /\ s[Len(s)] = " " THEN trimEnd(SubSeq(s, 1, Len(s) - 1)) ELSE s
trim(s) == trimEnd(trimStart(s))

\* String.prototype.split for a one-character separator
RECURSIVE split(_, _)
split(s, sep) ==
    IF \E i \in 1..Len(s) : s[i] = sep
    THEN LET i == CHOOSE k \in 1..Len(s) :
                      s[k] = sep /\ \A j \in 1..(k - 1) : s[j] # sep
         IN  <<SubSeq(s, 1, i - 1)>> \o split(SubSeq(s, i + 1, Len(s)), sep)
    ELSE <<s>>

Range(s) == {s[i] : i \in 1..Len(s)}

\* Array.prototype.join
RECURSIVE arrayJoin(_, _)
arrayJoin(a, sep) ==
    IF a = <<>> THEN <<>>
    ELSE IF Len(a) = 1 THEN a[1]
    ELSE a[1] \o <<sep>> \o arrayJoin(Tail(a), sep)

\* the string of an absolute path: '/' for the root, '/a/b' below it
pathString(p) == <<"/">> \o arrayJoin(p, "/")

(***************************************************************************)
(* Node's path module on resolved POSIX paths                              *)
(***************************************************************************)
Dot    == <<".">>
DotDot == <<".", ".">>

\* path.basename
basename(p) == IF p = <<>> THEN <<>> ELSE p[Len(p)]

\* path.dirname
dirname(p) == IF p = <<>> THEN <<>> ELSE SubSeq(p, 1, Len(p) - 1)

\* path.join(dir, name)
join(p, name) == Append(p, name)

\* path.extname applied to the base name: the text from the last '.', or ''
\* when there is none, when it is the first character, or for '..'
extnameOf(name) ==
    IF ~ \E i \in 1..Len(name) : name[i] = "." THEN <<>>
    ELSE LET k == CHOOSE i \in 1..Len(name) :
                      name[i] = "." /\ \A j \in (i + 1)..Len(name) : name[j] # "."
         IN  IF k = 1 \/ name = DotDot THEN <<>>
             ELSE SubSeq(name, k, Len(name))
extname(p) == extnameOf(basename(p))

IsPrefix(a, b) == Len(a) <= Len(b) /\ SubSeq(b, 1, Len(a)) = a

\* length of the longest common prefix of two segment lists
RECURSIVE CommonLen(_, _)
CommonLen(a, b) ==
    IF a # <<>> /\ b # <<>> /\ Head(a) = Head(b)
    THEN 1 + CommonLen(Tail(a), Tail(b)) ELSE 0

\* path.relative(from, to): '..' for every segment of from below the common
\* prefix, then the rest of to; the empty list is the empty string
relative(from, to) ==
    LET c == CommonLen(from, to)
    IN  [i \in 1..(Len(from) - c) |-> DotDot] \o SubSeq(to, c + 1, Len(to))

(***************************************************************************)
(* Binary classifier (src/lib/constants.ts)                                *)
(***************************************************************************)
BINARY_FILE_EXTENSIONS == <<
    <<".","p","n","g">>, <<".","j","p","g">>, <<".","j","p","e","g">>,
    <<".","g","i","f">>, <<".","b","m","p">>, <<".","t","i","f","f">>,
    <<".","w","e","b","p">>, <<".","i","c","o">>, <<".","s","v","g">>,
    <<".","e","x","e">>, <<".","d","l","l">>, <<".","s","o">>,
    <<".","d","y","l","i","b">>, <<".","b","i","n">>,
    <<".","c","l","a","s","s">>, <<".","p","y","c">>, <<".","z","i","p">>,
    <<".","g","z">>, <<".","t","a","r">>, <<".","r","a","r">>,
    <<".","7","z">>, <<".","b","z","2">>, <<".","x","z">>,
    <<".","m","p","3">>, <<".","m","p","4">>, <<".","a","v","i">>,
    <<".","m","o","v">>, <<".","w","a","v">>, <<".","o","g","g">>,
    <<".","f","l","a","c">>, <<".","w","m","v">>, <<".","m","k","v">>,
    <<".","p","d","f">>, <<".","d","o","c">>, <<".","d","o","c","x">>,
    <<".","x","l","s">>, <<".","x","l","s","x">>, <<".","p","p","t">>,
    <<".","p","p","t","x">>, <<".","p","a","g","e","s">>,
    <<".","k","e","y">>, <<".","n","u","m","b","e","r","s">>,
    <<".","t","t","f">>, <<".","o","t","f">>, <<".","w","o","f","f">>,
    <<".","w","o","f","f","2">>, <<".","e","o","t">>, <<".","d","b">>,
    <<".","s","q","l","i","t","e">>, <<".","m","d","b">>,
    <<".","i","s","o">>, <<".","d","m","g">>, <<".","i","m","g">> >>

\* BINARY_FILE_EXTENSIONS.includes(fileExt)
isBinaryExt(fileExt) == fileExt \in Range(BINARY_FILE_EXTENSIONS)

(***************************************************************************)
(* Glob matching: minimatch(path, pattern, { dot: true }) and the          *)
(* gitignore matcher of the ignore package, for patterns made of literal   *)
(* characters, '*' inside a segment and the '**' segment.                  *)
(***************************************************************************)
Star     == "*"
GlobStar == <<"*", "*">>

\* one segment against one segment pattern, '*' standing for any run of
\* characters
RECURSIVE WildMatch(_, _)
WildMatch(s, pat) ==
    IF pat = <<>> THEN s = <<>>
    ELSE IF Head(pat) = Star
         THEN WildMatch(s, Tail(pat)) \/ (s # <<>> /\ WildMatch(Tail(s), pat))
         ELSE s # <<>> /\ Head(s) = Head(pat) /\ WildMatch(Tail(s), Tail(pat))

\* minimatch on one path portion: a pattern with magic never matches '.'
\* or '..', and a lone '*' needs at least one character
SegMatch(s, pat) ==
    IF Star \in Range(pat)
    THEN s \notin {Dot, DotDot} /\ s # <<>> /\ WildMatch(s, pat)
    ELSE s = pat

\* minimatch's matchOne over the path portions
RECURSIVE MatchOne(_, _)
MatchOne(file, pattern) ==
    IF pattern = <<>> THEN file = <<>>
    ELSE IF Head(pattern) = GlobStar
         THEN IF Len(pattern) = 1
              THEN \A i \in 1..Len(file) : file[i] \notin {Dot, DotDot}
              ELSE \/ MatchOne(file, Tail(pattern))
                   \/ /\ file # <<>>
                      /\ Head(file) \notin {Dot, DotDot}
                      /\ MatchOne(Tail(file), pattern)
         ELSE /\ file # <<>>
              /\ SegMatch(Head(file), Head(pattern))
              /\ MatchOne(Tail(file), Tail(pattern))

\* minimatch(rel, pattern, { dot: true }); rel is a list of segments (the
\* empty string is the single empty portion), pattern the option's text
minimatch(rel, pattern) ==
    MatchOne(IF rel = <<>> THEN << <<>> >> ELSE rel, split(pattern, "/"))

\* options.ignorePatterns.some(pattern => minimatch(rel, pattern, ...))
matchesIgnorePattern(rel, patterns) ==
    \E i \in 1..Len(patterns) : minimatch(rel, patterns[i])

\* the ignore package refuses (throws on) a path that is empty or not
\* relative to its base: '', '.', '..', './x', '../x', '/x'
IgnoreThrows(rel) ==
    rel = <<>> \/ \A i \in 1..Len(rel[1]) : rel[1][i] = "."

\* ignore().add(rules).ignores(rel) for rules without '/' and '!': a rule
\* applies at every level, to the entry or to one of its parent directories
IgnoreMatches(rules, rel) ==
    \E r \in 1..Len(rules) : \E i \in 1..Len(rel) : WildMatch(rel[i], rules[r])

\* variant: a path the matcher refuses counts as ignored
ignores_failClosed(rules, rel) ==
    IF IgnoreThrows(rel) THEN TRUE ELSE IgnoreMatches(rules, rel)
\* the method installed by wrap(ig): orig(p), or false when orig throws
ignores(rules, rel) ==
    IF IgnoreThrows(rel) THEN FALSE ELSE IgnoreMatches(rules, rel)

(***************************************************************************)
(* loadIgnore (src/cli/ignore.ts)                                          *)
(***************************************************************************)
ENOENT == "ENOENT"

\* content.split('\n').map(trim).filter(l => l && !l.startsWith('#'))
RECURSIVE RuleLines(_)
RuleLines(lines) ==
    IF lines = <<>> THEN <<>>
    ELSE LET l == trim(Head(lines))
         IN  (IF l # <<>> /\ ~ startsWith(l, "#") THEN <<l>> ELSE <<>>)
             \o RuleLines(Tail(lines))
parseRules(content) == RuleLines(split(content, "\n"))

\* variant: the flag is not consulted
loadIgnore_flagUnused(ignoreGitignore, content) ==
    IF content = ENOENT THEN <<>> ELSE parseRules(content)
\* the rules of the returned matcher: none when the flag is set, when the
\* file cannot be read or when it holds no rule
loadIgnore(ignoreGitignore, content) ==
    IF ignoreGitignore \/ content = ENOENT THEN <<>> ELSE parseRules(content)

\* Array.prototype.sort with (a, b) => a.name.localeCompare(b.name):
\* punctuation before digits before letters, letters compared without
\* case first, lower case before upper case on a tie
CollationOrder == <<"_", "-", ".", "0", "1", "2", "3", "4", "5", "6", "7",
                    "8", "9">> \o LowerChars
CollationKey(c) ==
    LET l == LowerChar(c)
    IN  CHOOSE i \in 1..Len(CollationOrder) : CollationOrder[i] = l
RECURSIVE PrimaryLess(_, _)
PrimaryLess(a, b) ==
    IF b = <<>> THEN FALSE
    ELSE IF a = <<>> THEN TRUE
    ELSE IF CollationKey(Head(a)) # CollationKey(Head(b))
         THEN CollationKey(Head(a)) < CollationKey(Head(b))
         ELSE PrimaryLess(Tail(a), Tail(b))
RECURSIVE CaseLess(_, _)
CaseLess(a, b) ==
    IF a = <<>> \/ b = <<>> THEN FALSE
    ELSE IF Head(a) # Head(b) THEN Head(a) = LowerChar(Head(a))
         ELSE CaseLess(Tail(a), Tail(b))
localeCompareLess(a, b) ==
    PrimaryLess(a, b) \/ (~ PrimaryLess(b, a) /\ CaseLess(a, b))

RECURSIVE sortNames(_)
sortNames(S) ==
    IF S = {} THEN <<>>
    ELSE LET m == CHOOSE x \in S : \A y \in S \ {x} : localeCompareLess(x, y)
         IN  <<m>> \o sortNames(S \ {m})

(***************************************************************************)
(* Bounds and inputs                                                       *)
(***************************************************************************)
\* nesting depth of the deep narrow tree
ChainDepth == 11
\* SpecLimiter: limits tried and tasks submitted
MaxConcurrency == 2
MaxTasks == 4

\* const limit = new Limiter(10)
LimitConcurrency == 10

w         == <<"w">>
d         == <<"d">>
dot_git   == <<".", "g", "i", "t">>
dot_env   == <<".", "e", "n", "v">>
config    == <<"c", "o", "n", "f", "i", "g">>
a_txt     == <<"a", ".", "t", "x", "t">>
note_txt  == <<"n", "o", "t", "e", ".", "t", "x", "t">>
A_TXT     == <<"A", ".", "T", "X", "T">>
image_png == <<"i", "m", "a", "g", "e", ".", "p", "n", "g">>
PIC_PNG   == <<"P", "I", "C", ".", "P", "N", "G">>
build     == <<"b", "u", "i", "l", "d">>
x_js      == <<"x", ".", "j", "s">>
app_log   == <<"a", "p", "p", ".", "l", "o", "g">>
b_txt     == <<"b", ".", "t", "x", "t">>
c_sub     == <<"c", "_", "s", "u", "b">>
d_txt     == <<"d", ".", "t", "x", "t">>

\* a filesystem maps each existing absolute path to "file" or "dir"
FsHidden ==
    (<<w>> :> "dir") @@ (<<w, dot_git>> :> "dir")
    @@ (<<w, dot_git, config>> :> "file") @@ (<<w, dot_env>> :> "file")
    @@ (<<w, a_txt>> :> "file")
FsIgnore ==
    (<<w>> :> "dir") @@ (<<w, build>> :> "dir")
    @@ (<<w, build, x_js>> :> "file") @@ (<<w, app_log>> :> "file")
    @@ (<<w, note_txt>> :> "file")
FsBinary ==
    (<<w>> :> "dir") @@ (<<w, image_png>> :> "file")
    @@ (<<w, PIC_PNG>> :> "file") @@ (<<w, A_TXT>> :> "file")
\* w/d/d/.../d/a.txt with ChainDepth nested directories d
ChainDir(k) == <<w>> \o [i \in 1..k |-> d]
FsChain ==
    [p \in {ChainDir(k) : k \in 0..ChainDepth} |-> "dir"]
    @@ (join(ChainDir(ChainDepth), a_txt) :> "file")
\* w/{b.txt, a.txt, c_sub/d.txt}
FsSort ==
    (<<w>> :> "dir") @@ (<<w, b_txt>> :> "file") @@ (<<w, a_txt>> :> "file")
    @@ (<<w, c_sub>> :> "dir") @@ (<<w, c_sub, d_txt>> :> "file")
FileSystems == {FsHidden, FsIgnore, FsBinary, FsChain}
PrintFileSystems == {FsHidden, FsBinary, FsSort}

ExtensionLists ==
    { <<>>, << <<".", "t", "x", "t">> >>, << <<".", "T", "X", "T">> >>,
      << <<".", "p", "n", "g">>, <<".", "j", "s">> >> }
PatternLists ==
    { <<>>, << build, <<"*", "*", "/", "x", ".", "j", "s">> >>,
      << <<"*", ".", "l", "o", "g">> >> }
\* --cxml, --markdown (the two exclude each other) and --line-numbers
FormatFlags ==
    {f \in [claudeXml : BOOLEAN, markdown : BOOLEAN, lineNumbers : BOOLEAN] :
        ~ (f.claudeXml /\ f.markdown)}
\* none of the three given
NoFormat == [claudeXml |-> FALSE, markdown |-> FALSE, lineNumbers |-> FALSE]
\* the text stored in the file p: a comment line naming the file
fileContent(p) == <<"/", "/", " ">> \o basename(p) \o <<"\n">>
\* text of <cwd>/.gitignore, or ENOENT when there is none
GitignoreText ==
    <<"#", " ", "o", "u", "t", "\n", " ", "*", ".", "l", "o", "g", " ", "\n",
      "\n", "b", "u", "i", "l", "d">>
GitignoreContents == {ENOENT, GitignoreText}

(***************************************************************************)
(* State                                                                   *)
(***************************************************************************)
VARIABLES
    fs,           \* the filesystem walked
    cwd,          \* process.cwd()
    gitignore,    \* text of <cwd>/.gitignore, or ENOENT; in SpecRun the
                  \* text of the .gitignore of each directory
    argv,         \* the parsed command line
    options,      \* ProcessPathOptions (stats is the variable below);
                  \* FileTreeOptions while the tree is built
    targetPath,   \* argument of the top-level processPath call
    call,         \* per path: where its processPath call stands
    stats,        \* options.stats: foundFiles, skippedFiles
    printed,      \* the files given to printPath, in order
    printArgs,    \* the arguments of each printPath call, in order
    sink,         \* the texts given to the writer, in order, each with the
                  \* file whose printPath call wrote it
    log,          \* messages given to options.debug and console.error
    concurrency,  \* Limiter.concurrency
    running,      \* Limiter.running
    queue,        \* Limiter.queue
    fnKind,       \* SpecLimiter: what the function given to add will do
    task,         \* SpecLimiter: per submitted task, where it stands
    promise,      \* SpecLimiter: the promise add returned for each task
    started,      \* the bodies started, in order: the paths of the
                  \* processPath calls in Spec, the tasks in SpecLimiter
    tree,         \* SpecTree: the generateFileTree call
    ancestor,     \* SpecAncestor: the findCommonAncestor call
    main          \* SpecRun: where run() of src/cli/main.ts stands

vars == <<fs, cwd, gitignore, argv, options, targetPath, call, stats, printed,
          printArgs, sink, log, concurrency, running, queue, fnKind, task,
          promise, started, tree, ancestor, main>>
envVars == <<fs, cwd, gitignore, argv, options, targetPath>>
travVars == <<call, stats, printed, printArgs, sink, log>>
limVars == <<fnKind, task, promise, started>>
utilVars == <<tree, ancestor, main>>

(***************************************************************************)
(* Limiter (src/lib/processor.ts)                                          *)
(***************************************************************************)
\* variant: the guard admits one task too many (<= for <)
canStart_offByOne(r, q) == r <= concurrency /\ Len(q) > 0
\* the guard of Limiter.next
canStart(r, q) == r < concurrency /\ Len(q) > 0

\* variant: the newest closure is taken (pop for shift)
queueShift_pop(q) == [first |-> q[Len(q)], rest |-> SubSeq(q, 1, Len(q) - 1)]
\* Array.prototype.shift on the wait queue
queueShift(q) == [first |-> Head(q), rest |-> Tail(q)]

(***************************************************************************)
(* processPath (src/lib/processor.ts).  One action is one turn of the      *)
(* event loop: the completion of a stat, readdir or readFile, the          *)
(* synchronous code that follows it and the promise reactions it triggers. *)
(* The record m carries call, running, queue and log through the turn.     *)
(***************************************************************************)
Children(p) == {q \in DOMAIN fs : Len(q) = Len(p) + 1 /\ IsPrefix(p, q)}

\* processPath(p) up to its first await: the debug line, then fsp.stat
startCall(m, p) ==
    [m EXCEPT !.call[p] = "stat", !.log = @ \cup {<<"processing", p>>},
              !.started = Append(@, p)]

\* the closure queued by add: running++, then fn()
nextTask(m, p) == startCall([m EXCEPT !.running = @ + 1], p)

\* Limiter.next
next(m) ==
    IF canStart(m.running, m.queue)
    THEN LET s == queueShift(m.queue)
         IN  nextTask([m EXCEPT !.queue = s.rest], s.first)
    ELSE m

\* limit.add(() => processPath(p, options))
add(m, p) == next([m EXCEPT !.queue = Append(@, p), !.call[p] = "queued"])

\* entries.map(entry => limit.add(...)) over the sorted entries
RECURSIVE addAll(_, _, _)
addAll(m, dir, names) ==
    IF names = <<>> THEN m
    ELSE addAll(add(m, join(dir, Head(names))), dir, Tail(names))

\* variant: the directory resumes as soon as one child is done
allSettled_any(m, p) == \E q \in Children(p) : m.call[q] = "done"
\* Promise.all(subTasks) of directory p is fulfilled
allSettled(m, p) == \A q \in Children(p) : m.call[q] = "done"

\* processPath(p) returns: its promise resolves, the limiter's finally runs
\* (running--, next()) and a parent waiting on Promise.all may resume
RECURSIVE settle(_, _)
settle(m, p) ==
    LET m1 == [m EXCEPT !.call[p] = "done"]
        m2 == IF p = targetPath THEN m1
              ELSE next([m1 EXCEPT !.running = @ - 1])
    IN  IF p # targetPath /\ m2.call[dirname(p)] = "join"
           /\ allSettled(m2, dirname(p))
        THEN settle(m2, dirname(p))
        ELSE m2

\* the path given to the ignore rules: relative to the base, '.' for the base
relativePath(p) ==
    LET r == relative(options.baseIgnorePath, p)
    IN  IF r = <<>> THEN <<Dot>> ELSE r
\* the path given to minimatch
minimatchRelativePath(p) == relative(options.baseIgnorePath, p)

\* const fileExt = path.extname(targetPath).toLowerCase()
fileExt(p) == toLowerCase(extname(p))

\* options.extensions.some(ext => fileExt === ext)
extensionMatches(p) ==
    \E i \in 1..Len(options.extensions) : fileExt(p) = options.extensions[i]

\* variant: the hidden check is made for files only
hiddenSkip_filesOnly(p) ==
    ~ options.includeHidden /\ startsWith(basename(p), ".") /\ fs[p] = "file"
\* if (!options.includeHidden && baseName.startsWith('.')) return
hiddenSkip(p) == ~ options.includeHidden /\ startsWith(basename(p), ".")

\* isIgnoredByGitignore
gitignoreSkip(p) == ignores(options.mainIg, relativePath(p))

\* the --ignore test made on a file
customFileSkip(p) ==
    matchesIgnorePattern(minimatchRelativePath(p), options.ignorePatterns)

\* variant: an extension named by the allow-list is exempt from the binary
\* check
binarySkip_unlessListed(p) ==
    /\ isBinaryExt(fileExt(p))
    /\ ~ options.includeBinaryFiles
    /\ ~ extensionMatches(p)
\* if (isBinaryFile && !options.includeBinaryFiles)
binarySkip(p) == isBinaryExt(fileExt(p)) /\ ~ options.includeBinaryFiles

\* the extension filter rejects the file
extensionSkip(p) == Len(options.extensions) > 0 /\ ~ extensionMatches(p)

\* variant: --ignore-files-only is not consulted
customDirSkip_always(p) ==
    matchesIgnorePattern(minimatchRelativePath(p), options.ignorePatterns)
\* the --ignore test made on a directory
customDirSkip(p) ==
    /\ ~ options.ignoreFilesOnly
    /\ matchesIgnorePattern(minimatchRelativePath(p), options.ignorePatterns)

\* variant: a directory dropped by a custom pattern is counted as skipped
statOutcome_dirCounted(p, ok) ==
    IF ~ ok THEN "statError"
    ELSE IF hiddenSkip(p) THEN "skipHidden"
    ELSE IF gitignoreSkip(p) THEN "skipGitignore"
    ELSE IF fs[p] = "file"
    THEN IF customFileSkip(p) THEN "skipIgnoreFile"
         ELSE IF binarySkip(p) THEN "skipBinary"
         ELSE IF extensionSkip(p) THEN "skipExt"
         ELSE "reading"
    ELSE IF customDirSkip(p) THEN "skipIgnoreFile"
         ELSE "isDirectory"
\* variant: a failed stat is counted like a file the allow-list rejects
statOutcome_errorCounted(p, ok) ==
    IF ~ ok THEN "skipExt"
    ELSE IF hiddenSkip(p) THEN "skipHidden"
    ELSE IF gitignoreSkip(p) THEN "skipGitignore"
    ELSE IF fs[p] = "file"
    THEN IF customFileSkip(p) THEN "skipIgnoreFile"
         ELSE IF binarySkip(p) THEN "skipBinary"
         ELSE IF extensionSkip(p) THEN "skipExt"
         ELSE "reading"
    ELSE IF customDirSkip(p) THEN "skipIgnoreDir"
         ELSE "isDirectory"
\* the branch processPath takes once the stat of p has completed
statOutcome(p, ok) ==
    IF ~ ok THEN "statError"
    ELSE IF hiddenSkip(p) THEN "skipHidden"
    ELSE IF gitignoreSkip(p) THEN "skipGitignore"
    ELSE IF fs[p] = "file"
    THEN IF customFileSkip(p) THEN "skipIgnoreFile"
         ELSE IF binarySkip(p) THEN "skipBinary"
         ELSE IF extensionSkip(p) THEN "skipExt"
         ELSE "reading"
    ELSE IF customDirSkip(p) THEN "skipIgnoreDir"
         ELSE "isDirectory"

\* options.stats.foundFiles++
foundFilesInc(s) == [s EXCEPT !.foundFiles = @ + 1]

\* variant: the skip branches bump the other counter
skippedFilesInc_found(s) == [s EXCEPT !.foundFiles = @ + 1]
\* options.stats.skippedFiles++
skippedFilesInc(s) == [s EXCEPT !.skippedFiles = @ + 1]

\* variant: the printer is given the path relative to the base
printPathArgs_relative(p, content) ==
    [writer |-> options.writer, filePath |-> relativePath(p),
     content |-> content, claudeXml |-> options.claudeXml,
     markdown |-> options.markdown, lineNumbers |-> options.lineNumbers]
\* the arguments of printPath(options.writer, targetPath, content,
\* options.claudeXml, options.markdown, options.lineNumbers)
printPathArgs(p, content) ==
    [writer |-> options.writer, filePath |-> p, content |-> content,
     claudeXml |-> options.claudeXml, markdown |-> options.markdown,
     lineNumbers |-> options.lineNumbers]

(***************************************************************************)
(* The printers (lib/printers.ts).  A text is a sequence of characters;    *)
(* the fixed parts of the XML form are kept as whole tokens.               *)
(***************************************************************************)
\* String(n)
RECURSIVE numberString(_)
numberString(n) ==
    IF n < 10 THEN <<Digits[n + 1]>>
    ELSE numberString(n \div 10) \o <<Digits[(n % 10) + 1]>>

\* String.prototype.padStart with spaces
padStart(s, n) == [i \in 1..(n - Len(s)) |-> " "] \o s

\* addLineNumbers: every line of the content gets its number, padded to the
\* width of the last number, and two spaces
addLineNumbers(content) ==
    LET lines   == split(content, "\n")
        padding == Len(numberString(Len(lines)))
    IN  arrayJoin([i \in 1..Len(lines) |->
                      padStart(numberString(i), padding) \o <<" ", " ">>
                      \o lines[i]], "\n")

\* content.replace(/&/g, '&amp;').replace(/</g, '&lt;').replace(/>/g, '&gt;')
RECURSIVE escapeXml(_)
escapeXml(s) ==
    IF s = <<>> THEN <<>>
    ELSE (IF Head(s) = "&" THEN <<"&", "a", "m", "p", ";">>
          ELSE IF Head(s) = "<" THEN <<"&", "l", "t", ";">>
          ELSE IF Head(s) = ">" THEN <<"&", "g", "t", ";">>
          ELSE <<Head(s)>>) \o escapeXml(Tail(s))

\* String.prototype.includes
includes(s, sub) ==
    \E i \in 1..(Len(s) - Len(sub) + 1) : SubSeq(s, i, i + Len(sub) - 1) = sub

\* the backtick character
Backtick == "U+0060"

\* the fence of a Markdown block: three backticks, and one more as long as
\* the content includes the fence
RECURSIVE fence(_, _)
fence(content, backticks) ==
    IF includes(content, backticks)
    THEN fence(content, Append(backticks, Backtick))
    ELSE backticks

\* EXT_TO_LANG[extension] || ''
langOf(extension) ==
    IF extension = <<"j", "s">>
    THEN <<"j", "a", "v", "a", "s", "c", "r", "i", "p", "t">>
    ELSE IF extension = <<"t", "s">>
    THEN <<"t", "y", "p", "e", "s", "c", "r", "i", "p", "t">>
    ELSE IF extension = <<"p", "y">> THEN <<"p", "y", "t", "h", "o", "n">>
    ELSE <<>>

Rule == <<"-", "-", "-">>

\* the texts printDefault gives to the writer
printDefault(filePath, content, lineNumbers) ==
    << pathString(filePath), Rule,
       IF lineNumbers THEN addLineNumbers(content) ELSE content,
       <<>>, Rule >>

\* the texts printAsXml gives to the writer; index is globalIndex
printAsXml(index, filePath, content, lineNumbers) ==
    << <<"<document index=\"">> \o numberString(index) \o <<"\">">>,
       <<"<source>">> \o pathString(filePath) \o <<"</source>">>,
       <<"<document_content>">>,
       escapeXml(IF lineNumbers THEN addLineNumbers(content) ELSE content),
       <<"</document_content>">>,
       <<"</document>">> >>

\* the texts printAsMarkdown gives to the writer
printAsMarkdown(filePath, content, lineNumbers) ==
    LET ext       == extname(filePath)
        extension == SubSeq(ext, 2, Len(ext))
        backticks == fence(content, <<Backtick, Backtick, Backtick>>)
    IN  << pathString(filePath), backticks \o langOf(extension),
           IF lineNumbers THEN addLineNumbers(content) ELSE content,
           backticks, <<>> >>

\* export let globalIndex = 1, raised by every printAsXml
globalIndex == IF options.claudeXml THEN Len(printed) + 1 ELSE 1

\* printPath: the texts written for one file, by the form the flags choose
printPath(a) ==
    IF a.claudeXml
    THEN printAsXml(globalIndex, a.filePath, a.content, a.lineNumbers)
    ELSE IF a.markdown
    THEN printAsMarkdown(a.filePath, a.content, a.lineNumbers)
    ELSE printDefault(a.filePath, a.content, a.lineNumbers)

\* variant: the first text of a block is written before the last text of
\* the block before it
writeAll_split(s, p, texts) ==
    LET block == [i \in 1..Len(texts) |-> [file |-> p, text |-> texts[i]]]
    IN  IF s = <<>> THEN block
        ELSE SubSeq(s, 1, Len(s) - 1) \o <<block[1], s[Len(s)]>>
             \o Tail(block)
\* the writer calls of one printPath call, made one after the other in the
\* turn in which the read completed
writeAll(s, p, texts) ==
    s \o [i \in 1..Len(texts) |-> [file |-> p, text |-> texts[i]]]

Machine ==
    [call |-> call, running |-> running, queue |-> queue, log |-> log,
     started |-> started]

Install(m) ==
    /\ call' = m.call
    /\ running' = m.running
    /\ queue' = m.queue
    /\ log' = m.log
    /\ started' = m.started

\* what fsp.readdir(p) can return: the names of the entries of p, in any
\* order
readdir(p) ==
    LET names == {basename(q) : q \in Children(p)}
    IN  {l \in [1..Cardinality(names) -> names] : Range(l) = names}

\* variant: the entries are taken in the order of the listing
sortEntries_asListed(entries) == entries
\* entries.sort((a, b) => a.name.localeCompare(b.name))
sortEntries(entries) == sortNames(Range(entries))

\* a text run itself gives to the writer: it belongs to no file
written(text) == [file |-> <<>>, text |-> text]

\* the for loop of run after the input main.next: the fsp.access of the next
\* input is awaited; with no input left finalize is awaited and the
\* statistics st are printed
loopNext(mn, st) ==
    IF mn.next < Len(mn.paths)
    THEN [mn EXCEPT !.next = @ + 1, !.phase = "access"]
    ELSE [mn EXCEPT !.phase = "done", !.report = st]

\* run resumes after 'await processPath(targetPath, options)' in the turn
\* in which the top-level call settles; c and st are call and stats then
runResume(mn, c, st) ==
    IF mn # <<>> /\ mn.phase = "process" /\ c[targetPath] = "done"
    THEN loopNext(mn, st)
    ELSE mn

\* if (argv.cxml) writer('</documents>'), once the loop is over
closeWrapper(s, mn) ==
    IF mn # <<>> /\ mn.phase = "done" /\ argv.cxml
    THEN Append(s, written(<<"</documents>">>))
    ELSE s

\* fsp.stat(p) completes
StatDone(p) ==
    /\ p \in DOMAIN call
    /\ call[p] = "stat"
    /\ \E ok \in BOOLEAN :
         LET o == statOutcome(p, ok)
             m == [Machine EXCEPT !.log = @ \cup {<<o, p>>}]
         IN  /\ Install(IF o = "reading" THEN [m EXCEPT !.call[p] = "readFile"]
                        ELSE IF o = "isDirectory"
                        THEN [m EXCEPT !.call[p] = "readdir"]
                        ELSE settle(m, p))
             /\ stats' = IF o \in {"skipIgnoreFile", "skipBinary", "skipExt"}
                         THEN skippedFilesInc(stats)
                         ELSE stats
    /\ main' = runResume(main, call', stats')
    /\ sink' = closeWrapper(sink, main')
    /\ UNCHANGED <<printed, printArgs, envVars, concurrency, fnKind, task,
                   promise, tree, ancestor>>

\* fsp.readFile(p) completes
ReadFileDone(p) ==
    /\ p \in DOMAIN call
    /\ call[p] = "readFile"
    /\ \E ok \in BOOLEAN :
         IF ok
         THEN /\ printed' = Append(printed, p)
              /\ printArgs' = Append(printArgs, printPathArgs(p, fileContent(p)))
              /\ stats' = foundFilesInc(stats)
              /\ Install(settle([Machine EXCEPT
                                   !.log = @ \cup {<<"printing", p>>}], p))
              /\ main' = runResume(main, call', stats')
              /\ sink' = closeWrapper(
                            writeAll(sink, p,
                                     printPath(printPathArgs(p, fileContent(p)))),
                            main')
         ELSE /\ Install(settle([Machine EXCEPT
                                   !.log = @ \cup {<<"readError", p>>}], p))
              /\ main' = runResume(main, call', stats)
              /\ sink' = closeWrapper(sink, main')
              /\ UNCHANGED <<printed, printArgs, stats>>
    /\ UNCHANGED <<envVars, concurrency, fnKind, task, promise, tree, ancestor>>

\* fsp.readdir(p) completes
ReaddirDone(p) ==
    /\ p \in DOMAIN call
    /\ call[p] = "readdir"
    /\ \E ok \in BOOLEAN :
         IF ok
         THEN \E listed \in readdir(p) :
                LET entries == sortEntries(listed)
                    m == addAll([Machine EXCEPT
                                   !.call[p] = "join",
                                   !.log = @ \cup {<<"foundEntries", p>>}],
                                p, entries)
                IN  Install(IF allSettled(m, p) THEN settle(m, p) ELSE m)
         ELSE Install(settle([Machine EXCEPT
                                !.log = @ \cup {<<"readdirError", p>>}], p))
    /\ main' = runResume(main, call', stats)
    /\ sink' = closeWrapper(sink, main')
    /\ UNCHANGED <<stats, printed, printArgs, envVars, concurrency, fnKind,
                   task, promise, tree, ancestor>>

\* the options main builds, with the matcher loadIgnore returns and the
\* sink createWriter returns; the format flags are added below
FilterOptions ==
    [extensions : ExtensionLists, includeHidden : BOOLEAN,
     ignoreFilesOnly : BOOLEAN, ignorePatterns : PatternLists,
     includeBinaryFiles : BOOLEAN,
     mainIg : {loadIgnore(argv.ignoreGitignore, gitignore)},
     baseIgnorePath : {cwd}, writer : {"writer"}]
\* every filter setting, without a format flag
OptionsSet == {o @@ NoFormat : o \in FilterOptions}
\* every format, with the hidden, binary and extension filters
PrintOptionsSet ==
    {o @@ f : o \in {x \in FilterOptions :
                       /\ x.ignorePatterns = <<>>
                       /\ ~ x.ignoreFilesOnly
                       /\ Len(x.extensions) <= 1},
              f \in FormatFlags}

\* processPath(targetPath) has been called and awaits its stat
Start ==
    /\ targetPath \in {p \in DOMAIN fs : Len(p) <= 2}
    /\ stats = [foundFiles |-> 0, skippedFiles |-> 0]
    /\ printed = <<>>
    /\ printArgs = <<>>
    /\ sink = <<>>
    /\ main = <<>>
    /\ concurrency = LimitConcurrency
    /\ running = 0
    /\ queue = <<>>
    /\ call = [p \in DOMAIN fs |-> IF p = targetPath THEN "stat" ELSE "none"]
    /\ log = {<<"processing", targetPath>>}
    /\ fnKind = <<>>
    /\ task = <<>>
    /\ promise = <<>>
    /\ started = <<targetPath>>
    /\ tree = <<>>
    /\ ancestor = <<>>

\* main has loaded the ignore rules and calls processPath(targetPath)
Init ==
    /\ fs \in FileSystems
    /\ cwd = <<w>>
    /\ gitignore \in GitignoreContents
    /\ argv \in [ignoreGitignore : BOOLEAN]
    /\ options \in OptionsSet
    /\ Start

\* the same with every format, on the trees without ignore rules
InitPrint ==
    /\ fs \in PrintFileSystems
    /\ cwd = <<w>>
    /\ gitignore = ENOENT
    /\ argv = [ignoreGitignore |-> FALSE]
    /\ options \in PrintOptionsSet
    /\ Start

Next ==
    \/ \E p \in DOMAIN fs : StatDone(p)
    \/ \E p \in DOMAIN fs : ReadFileDone(p)
    \/ \E p \in DOMAIN fs : ReaddirDone(p)

Spec == Init /\ [][Next]_vars

SpecPrint == InitPrint /\ [][Next]_vars

(***************************************************************************)
(* generateFileTree (src/lib/fileTree.ts).  recurse runs one filesystem    *)
(* operation at a time, so the pending recursion is the list todo of the   *)
(* paths still to visit, first the one whose stat or listing is awaited.   *)
(* The failures of the filesystem are part of the input: badStat holds the *)
(* paths whose stat fails, badDir the directories whose listing fails.     *)
(* The box-drawing characters are written by their code points.            *)
(***************************************************************************)
\* the characters of the model in the order of their UTF-16 code units
CodeUnitOrder ==
    <<"-", ".", "/">> \o Digits \o UpperChars \o <<"_">> \o LowerChars
CodeUnit(c) == CHOOSE i \in 1..Len(CodeUnitOrder) : CodeUnitOrder[i] = c

\* a < b as the default comparator of Array.prototype.sort orders strings:
\* by code units, a proper prefix first
RECURSIVE stringLess(_, _)
stringLess(a, b) ==
    IF a = <<>> THEN b # <<>>
    ELSE IF b = <<>> THEN FALSE
    ELSE IF Head(a) = Head(b) THEN stringLess(Tail(a), Tail(b))
    ELSE CodeUnit(Head(a)) < CodeUnit(Head(b))

\* x put in its place in the sorted list a
RECURSIVE insertSorted(_, _)
insertSorted(x, a) ==
    IF a = <<>> THEN <<x>>
    ELSE IF stringLess(x, Head(a)) THEN <<x>> \o a
    ELSE <<Head(a)>> \o insertSorted(x, Tail(a))

\* variant: the relative paths stay in the order of the walk
sort_omitted(a) == a
\* Array.prototype.sort without a comparator
RECURSIVE sort(_)
sort(a) == IF a = <<>> THEN <<>> ELSE insertSorted(Head(a), sort(Tail(a)))

\* path.relative(options.baseIgnorePath, p) as a string
relString(p) == arrayJoin(relative(options.baseIgnorePath, p), "/")

\* the checks recurse makes before the stat: the gitignore rules (not for
\* the base itself, whose relative path is empty) and the hidden names
treeEarlySkip(p) ==
    LET rel == relative(options.baseIgnorePath, p)
    IN  \/ rel # <<>> /\ ignores(options.mainIg, rel)
        \/ ~ options.includeHidden /\ startsWith(basename(p), ".")

\* variant: a match ends the visit of a directory whatever the flag
treeCustomSkip_always(p) ==
    matchesIgnorePattern(relative(options.baseIgnorePath, p),
                         options.ignorePatterns)
\* the custom patterns: a match ends the visit unless ignoreFilesOnly is set
\* and the entry is no file
treeCustomSkip(p) ==
    /\ matchesIgnorePattern(relative(options.baseIgnorePath, p),
                            options.ignorePatterns)
    /\ ~ options.ignoreFilesOnly \/ fs[p] = "file"

\* a file with a binary extension is left out unless includeBinaryFiles
treeBinarySkip(p) ==
    isBinaryExt(toLowerCase(extname(p))) /\ ~ (options.includeBinaryFiles = TRUE)

\* Set.prototype.add: insertion order, no duplicate
setAdd(set, p) == IF p \in Range(set) THEN set ELSE Append(set, p)

\* an object of type TreeNode is the list of its properties in the order
\* Object.keys gives them: [name, sub] with sub the child object
isDigit(c) == \E i \in 1..Len(Digits) : Digits[i] = c
DigitValue(c) == CHOOSE i \in 1..Len(Digits) : Digits[i] = c
\* a < b for two digit strings of the same length
RECURSIVE digitsLess(_, _)
digitsLess(a, b) ==
    IF a = <<>> THEN FALSE
    ELSE IF Head(a) = Head(b) THEN digitsLess(Tail(a), Tail(b))
    ELSE DigitValue(Head(a)) < DigitValue(Head(b))
\* a < b for two canonical numeric strings
indexLess(a, b) == Len(a) < Len(b) \/ (Len(a) = Len(b) /\ digitsLess(a, b))
\* 2^32 - 1, above every array index
MaxIndexBound == <<"4", "2", "9", "4", "9", "6", "7", "2", "9", "5">>
\* the property name is an array index: a canonical numeric string below
\* 2^32 - 1; such keys are enumerated first, in numeric order
isArrayIndex(k) ==
    /\ k # <<>>
    /\ \A i \in 1..Len(k) : isDigit(k[i])
    /\ Len(k) = 1 \/ k[1] # "0"
    /\ indexLess(k, MaxIndexBound)

hasKey(node, k) == \E i \in 1..Len(node) : node[i].name = k
keyIndex(node, k) == CHOOSE i \in 1..Len(node) : node[i].name = k

\* a new property k with the value {}: after the smaller array indices when
\* k is an array index, at the end otherwise
defineKey(node, k) ==
    LET e == [name |-> k, sub |-> <<>>]
    IN  IF isArrayIndex(k)
        THEN LET n == Cardinality({i \in 1..Len(node) :
                                     /\ isArrayIndex(node[i].name)
                                     /\ indexLess(node[i].name, k)})
             IN  SubSeq(node, 1, n) \o <<e>> \o SubSeq(node, n + 1, Len(node))
        ELSE Append(node, e)

\* property names every object literal inherits from Object.prototype with
\* a value that is not nullish (the ones a file is likely to be named after)
InheritedKeys ==
    { <<"c", "o", "n", "s", "t", "r", "u", "c", "t", "o", "r">>,
      <<"t", "o", "S", "t", "r", "i", "n", "g">>,
      <<"v", "a", "l", "u", "e", "O", "f">> }

\* for (const part of parts) cur = (cur[part] ??= {}): an own property is
\* followed; a name that node only inherits reads as the inherited value, so
\* nothing is assigned and cur leaves the tree; any other name is defined
RECURSIVE setPath(_, _)
setPath(node, parts) ==
    IF parts = <<>> THEN node
    ELSE LET k == Head(parts)
         IN  IF ~ hasKey(node, k) /\ k \in InheritedKeys THEN node
             ELSE LET n1 == IF hasKey(node, k) THEN node
                            ELSE defineKey(node, k)
                  IN  [n1 EXCEPT
                         ![keyIndex(n1, k)].sub = setPath(@, Tail(parts))]

\* for (const r of rels) ... r.split(path.sep) ...
RECURSIVE buildTree(_, _)
buildTree(root, rels) ==
    IF rels = <<>> THEN root
    ELSE buildTree(setPath(root, split(Head(rels), "/")), Tail(rels))

BoxVert      == "U+2502"
BoxHoriz     == "U+2500"
BoxUpRight   == "U+2514"
BoxVertRight == "U+251C"

\* variant: the corner marks the first sibling
conn_first(last) ==
    IF ~ last THEN <<BoxUpRight, BoxHoriz, BoxHoriz, " ">>
    ELSE <<BoxVertRight, BoxHoriz, BoxHoriz, " ">>
\* const conn = last ? corner : tee
conn(last) ==
    IF last THEN <<BoxUpRight, BoxHoriz, BoxHoriz, " ">>
    ELSE <<BoxVertRight, BoxHoriz, BoxHoriz, " ">>

\* prefix + (last ? four spaces : bar and three spaces)
childPrefix(prefix, last) ==
    prefix \o (IF last THEN <<" ", " ", " ", " ">>
               ELSE <<BoxVert, " ", " ", " ">>)

\* render(node, prefix): the lines pushed for the keys from idx on
RECURSIVE renderFrom(_, _, _)
renderFrom(node, prefix, idx) ==
    IF idx > Len(node) THEN <<>>
    ELSE LET last == idx = Len(node)
         IN  <<prefix \o conn(last) \o node[idx].name>>
             \o renderFrom(node[idx].sub, childPrefix(prefix, last), 1)
             \o renderFrom(node, prefix, idx + 1)
render(node, prefix) == renderFrom(node, prefix, 1)

\* the walk is over: sort the relative paths, build the object, render
treeFinish(t) ==
    LET rels == sort([i \in 1..Len(t.fileSet) |-> relString(t.fileSet[i])])
        lines == << <<".">> >> \o render(buildTree(<<>>, rels), <<>>)
    IN  [t EXCEPT !.op = "none", !.state = "resolved", !.lines = lines,
                  !.out = arrayJoin(lines, "\n")]

\* recurse up to its await: paths dropped before the stat are passed over,
\* then the stat of the next path is awaited; with nothing left the walk
\* is over
RECURSIVE treeWalk(_)
treeWalk(t) ==
    IF t.todo = <<>> THEN treeFinish(t)
    ELSE IF treeEarlySkip(Head(t.todo))
    THEN treeWalk([t EXCEPT !.todo = Tail(@)])
    ELSE [t EXCEPT !.op = "stat"]

\* generateFileTree(paths, options) up to its first await
generateFileTree(paths, badStat, badDir, round, prev) ==
    treeWalk([paths |-> paths, badStat |-> badStat, badDir |-> badDir,
              round |-> round, prev |-> prev, todo |-> paths, op |-> "none",
              fileSet |-> <<>>, state |-> "walking", lines |-> <<>>,
              out |-> <<>>])

notTreeVars == <<envVars, travVars, concurrency, running, queue, limVars,
                 ancestor, main>>
treeEnvVars == <<envVars, call, stats, printed, printArgs, log, concurrency,
                 running, queue, limVars, ancestor>>

\* renderTree after 'await generateFileTree': writer(treeStr.trimEnd()),
\* writer('---'), writer('')
treeWrites(s, t) ==
    s \o << written(trimEnd(t.out)), written(Rule), written(<<>>) >>
\* if (argv.cxml) writer('<documents>')
openWrapper(s) ==
    IF argv.cxml THEN Append(s, written(<<"<documents>">>)) ELSE s
\* run resumes after 'await renderTree(...)' in the turn in which the tree
\* t resolves, and goes on to the access of its first input
treeResume(mn, t, st) ==
    IF mn # <<>> /\ mn.phase = "tree" /\ t.state = "resolved"
    THEN loopNext(mn, st)
    ELSE mn
\* what that turn writes
treeOutput(s, mn, t) ==
    IF mn # <<>> /\ mn.phase = "tree" /\ t.state = "resolved"
    THEN openWrapper(treeWrites(s, t))
    ELSE s

\* fsp.stat of the path visited completes
TreeStatDone ==
    /\ tree.state = "walking"
    /\ tree.op = "stat"
    /\ LET p == Head(tree.todo)
           rest == [tree EXCEPT !.todo = Tail(@)]
       IN  tree' = IF p \in tree.badStat THEN treeWalk(rest)
                   ELSE IF treeCustomSkip(p) THEN treeWalk(rest)
                   ELSE IF fs[p] = "dir" THEN [tree EXCEPT !.op = "readdir"]
                   ELSE IF treeBinarySkip(p) THEN treeWalk(rest)
                   ELSE treeWalk([rest EXCEPT !.fileSet = setAdd(@, p)])
    /\ main' = treeResume(main, tree', stats)
    /\ sink' = treeOutput(sink, main, tree')
    /\ UNCHANGED treeEnvVars

\* fsp.readdir of the directory visited completes: its entries are visited
\* in the order of the listing; a failure is not caught and rejects the
\* promise of generateFileTree
TreeReaddirDone ==
    /\ tree.state = "walking"
    /\ tree.op = "readdir"
    /\ LET p == Head(tree.todo)
       IN  IF p \in tree.badDir
           THEN tree' = [tree EXCEPT !.state = "rejected", !.op = "none"]
           ELSE \E listed \in readdir(p) :
                  tree' = treeWalk([tree EXCEPT
                                      !.todo = [i \in 1..Len(listed) |->
                                                  join(p, listed[i])]
                                               \o Tail(@)])
    /\ main' = treeResume(main, tree', stats)
    /\ sink' = treeOutput(sink, main, tree')
    /\ UNCHANGED treeEnvVars

\* generateFileTree is called a second time with the same arguments on the
\* same filesystem; prev keeps what the first call returned and the order
\* in which it had met the files
TreeAgain ==
    /\ tree.state = "resolved"
    /\ tree.round = 1
    /\ tree' = generateFileTree(tree.paths, tree.badStat, tree.badDir, 2,
                                [out |-> tree.out, fileSet |-> tree.fileSet])
    /\ UNCHANGED notTreeVars

TreeFileSystems == {FsHidden, FsIgnore, FsBinary, FsSort}
\* the FileTreeOptions renderTree builds
TreeOptionsSet ==
    [baseIgnorePath : {cwd},
     mainIg : {loadIgnore(argv.ignoreGitignore, gitignore)},
     includeHidden : BOOLEAN, includeBinaryFiles : {FALSE},
     ignorePatterns : {<<>>, << build, <<"*", "*", "/", "x", ".", "j", "s">> >>},
     ignoreFilesOnly : BOOLEAN]
\* the base alone, or two entries of it
TreeInputs ==
    { << <<w>> >> } \cup {<<p, q>> : p, q \in {x \in DOMAIN fs : Len(x) = 2}}
\* at most one failing operation: a stat or a listing
TreeFaults ==
    {[badStat |-> {}, badDir |-> {}]}
    \cup {[badStat |-> {p}, badDir |-> {}] : p \in DOMAIN fs}
    \cup {[badStat |-> {}, badDir |-> {p}] :
            p \in {x \in DOMAIN fs : fs[x] = "dir"}}

InitTree ==
    /\ fs \in TreeFileSystems
    /\ cwd = <<w>>
    /\ gitignore \in GitignoreContents
    /\ argv = [ignoreGitignore |-> FALSE]
    /\ options \in TreeOptionsSet
    /\ tree \in {generateFileTree(paths, f.badStat, f.badDir, 1, <<>>) :
                   paths \in TreeInputs, f \in TreeFaults}
    /\ targetPath = <<>>
    /\ call = <<>>
    /\ stats = [foundFiles |-> 0, skippedFiles |-> 0]
    /\ printed = <<>>
    /\ printArgs = <<>>
    /\ sink = <<>>
    /\ main = <<>>
    /\ log = {}
    /\ concurrency = LimitConcurrency
    /\ running = 0
    /\ queue = <<>>
    /\ fnKind = <<>>
    /\ task = <<>>
    /\ promise = <<>>
    /\ started = <<>>
    /\ ancestor = <<>>

NextTree ==
    \/ TreeStatDone
    \/ TreeReaddirDone
    \/ TreeAgain

SpecTree == InitTree /\ [][NextTree]_vars

\* names that meet the ordering of sort and of Object.keys: a directory next
\* to files whose names extend its name with '-' or '.', and decimal names
FsPrefix ==
    (<<w>> :> "dir")
    @@ (<<w, <<"a">> >> :> "dir")
    @@ (<<w, <<"a">>, <<"x">> >> :> "file")
    @@ (<<w, <<"a", "-", "b">> >> :> "file")
    @@ (<<w, <<"a", ".", "b">> >> :> "file")
FsNumbers ==
    (<<w>> :> "dir")
    @@ (<<w, <<"1", "0">> >> :> "file")
    @@ (<<w, <<"9">> >> :> "file")
    @@ (<<w, <<"b">> >> :> "file")
\* a file named after an inherited property, a directory that holds hidden
\* and binary files only, and a directory with a file
FsInherited ==
    (<<w>> :> "dir")
    @@ (<<w, <<"c", "o", "n", "s", "t", "r", "u", "c", "t", "o", "r">> >>
          :> "file")
    @@ (<<w, <<"e">> >> :> "dir")
    @@ (<<w, <<"e">>, dot_env>> :> "file")
    @@ (<<w, <<"e">>, image_png>> :> "file")
    @@ (<<w, <<"a">> >> :> "dir")
    @@ (<<w, <<"a">>, <<"x">> >> :> "file")
NameFileSystems == {FsPrefix, FsNumbers, FsInherited}

\* the base alone, or any two paths, so that inputs overlap
NameInputs ==
    { << <<w>> >> } \cup {<<p, q>> : p, q \in DOMAIN fs}

InitTreeNames ==
    /\ fs \in NameFileSystems
    /\ cwd = <<w>>
    /\ gitignore = ENOENT
    /\ argv = [ignoreGitignore |-> FALSE]
    /\ options = [baseIgnorePath |-> cwd,
                  mainIg |-> loadIgnore(argv.ignoreGitignore, gitignore),
                  includeHidden |-> FALSE, includeBinaryFiles |-> FALSE,
                  ignorePatterns |-> <<>>, ignoreFilesOnly |-> FALSE]
    /\ tree \in {generateFileTree(paths, {}, {}, 1, <<>>) :
                   paths \in NameInputs}
    /\ targetPath = <<>>
    /\ call = <<>>
    /\ stats = [foundFiles |-> 0, skippedFiles |-> 0]
    /\ printed = <<>>
    /\ printArgs = <<>>
    /\ sink = <<>>
    /\ main = <<>>
    /\ log = {}
    /\ concurrency = LimitConcurrency
    /\ running = 0
    /\ queue = <<>>
    /\ fnKind = <<>>
    /\ task = <<>>
    /\ promise = <<>>
    /\ started = <<>>
    /\ ancestor = <<>>

SpecTreeNames == InitTreeNames /\ [][NextTree]_vars

(***************************************************************************)
(* findCommonAncestor (src/lib/pathUtils.ts) on POSIX.  The function works *)
(* on path strings: its inputs are written out with pathString, and its    *)
(* result is a string.                                                     *)
(***************************************************************************)
\* the segments a path string names: its non-empty components
segmentsOf(s) == SelectSeq(split(s, "/"), LAMBDA c : c # <<>>)

\* path.resolve's normalisation: empty and '.' components are dropped, '..'
\* removes the segment before it (none at the root)
RECURSIVE normalizeParts(_, _)
normalizeParts(parts, acc) ==
    IF parts = <<>> THEN acc
    ELSE LET c == Head(parts)
         IN  IF c = <<>> \/ c = Dot THEN normalizeParts(Tail(parts), acc)
             ELSE IF c = DotDot
                  THEN normalizeParts(Tail(parts), dirname(acc))
                  ELSE normalizeParts(Tail(parts), Append(acc, c))

\* path.resolve(p): a relative p is taken below process.cwd()
resolve(s) ==
    LET abs == IF startsWith(s, "/") THEN s
               ELSE pathString(cwd) \o <<"/">> \o s
    IN  pathString(normalizeParts(split(abs, "/"), <<>>))

\* path.dirname of a resolved path string: the text before its last '/',
\* or '/' when that is the leading one
dirnameString(s) ==
    LET k == CHOOSE i \in 1..Len(s) :
                 s[i] = "/" /\ \A j \in (i + 1)..Len(s) : s[j] # "/"
    IN  IF k = 1 THEN <<"/">> ELSE SubSeq(s, 1, k - 1)

\* fs.statSync(s): "dir" or "file", or "ENOENT" when it throws
statSync(s) ==
    IF segmentsOf(s) \in DOMAIN fs THEN fs[segmentsOf(s)] ELSE "ENOENT"

\* variant: the single path is returned whatever it names
singlePathAncestor_asIs(singlePath) == singlePath
\* the single-path case: a directory is returned itself, a file or a path
\* whose stat throws gives its parent directory
singlePathAncestor(singlePath) ==
    IF statSync(singlePath) = "dir" THEN singlePath
    ELSE dirnameString(singlePath)

\* p[i] === component
componentEqual_ignoreCase(a, b) == toLowerCase(a) = toLowerCase(b)
componentEqual(a, b) == a = b

\* the loop over the components of the first path: a component is kept
\* while every path has the same one at that index, and the loop breaks at
\* the first index where one differs or is missing
RECURSIVE commonComponents(_, _)
commonComponents(pathComponents, i) ==
    LET first == pathComponents[1]
    IN  IF i > Len(first) THEN <<>>
        ELSE IF \A k \in 1..Len(pathComponents) :
                    /\ Len(pathComponents[k]) >= i
                    /\ componentEqual(pathComponents[k][i], first[i])
             THEN <<first[i]>> \o commonComponents(pathComponents, i + 1)
             ELSE <<>>

\* the result built from the common components: a leading '' is the root
reconstruct(common) ==
    IF common # <<>> /\ common[1] = <<>>
    THEN IF Len(common) = 1 THEN <<"/">>
         ELSE <<"/">> \o arrayJoin(Tail(common), "/")
    ELSE IF common = <<>> THEN <<>>
    ELSE arrayJoin(common, "/")

findCommonAncestor(paths) ==
    IF paths = <<>> THEN pathString(cwd)
    ELSE LET resolvedPaths == [i \in 1..Len(paths) |-> resolve(paths[i])]
         IN  IF Len(resolvedPaths) = 1
             THEN singlePathAncestor(resolvedPaths[1])
             ELSE reconstruct(commonComponents(
                      [i \in 1..Len(resolvedPaths) |->
                          split(resolvedPaths[i], "/")], 1))

notAncestorVars ==
    <<envVars, travVars, concurrency, running, queue, limVars, tree, main>>

\* one call: ancestor.paths holds the inputs as segment lists
AncestorReturn ==
    /\ ancestor # <<>>
    /\ ancestor.state = "called"
    /\ ancestor' =
         [ancestor EXCEPT
            !.state = "returned",
            !.result = findCommonAncestor(
                           [i \in 1..Len(ancestor.paths) |->
                               pathString(ancestor.paths[i])])]
    /\ UNCHANGED notAncestorVars

\* after a call with one path p has returned, a call with [p, p];
\* ancestor.prev keeps the first call
AncestorAgain ==
    /\ ancestor # <<>>
    /\ ancestor.state = "returned"
    /\ Len(ancestor.paths) = 1
    /\ ancestor.prev = <<>>
    /\ ancestor' =
         [paths |-> ancestor.paths \o ancestor.paths, state |-> "called",
          result |-> <<>>,
          prev |-> [paths |-> ancestor.paths, result |-> ancestor.result]]
    /\ UNCHANGED notAncestorVars

\* longest input list
MaxPaths == 3

\* directories, regular files, and names that do not exist (/a/bc, /a/bd,
\* /A/b)
AncestorFs ==
    (<<>> :> "dir")
    @@ (<< <<"a">> >> :> "dir")
    @@ (<< <<"a">>, <<"b">> >> :> "dir")
    @@ (<< <<"a">>, <<"b">>, <<"c">> >> :> "file")
    @@ (<< <<"a">>, <<"b">>, <<"d">> >> :> "dir")
    @@ (<< <<"x">> >> :> "dir")
    @@ (<< <<"x">>, <<"y">> >> :> "file")

AncestorPaths ==
    DOMAIN AncestorFs
    \cup { << <<"a">>, <<"b", "c">> >>, << <<"a">>, <<"b", "d">> >>,
           << <<"A">>, <<"b">> >> }

AncestorInputs ==
    UNION {[1..n -> AncestorPaths] : n \in 0..MaxPaths}

InitAncestor ==
    /\ fs = AncestorFs
    /\ cwd = << <<"x">> >>
    /\ gitignore = ENOENT
    /\ argv = <<>>
    /\ options = <<>>
    /\ ancestor \in {[paths |-> ps, state |-> "called", result |-> <<>>,
                        prev |-> <<>>] :
                       ps \in AncestorInputs}
    /\ targetPath = <<>>
    /\ call = <<>>
    /\ stats = [foundFiles |-> 0, skippedFiles |-> 0]
    /\ printed = <<>>
    /\ printArgs = <<>>
    /\ sink = <<>>
    /\ main = <<>>
    /\ log = {}
    /\ concurrency = LimitConcurrency
    /\ running = 0
    /\ queue = <<>>
    /\ fnKind = <<>>
    /\ task = <<>>
    /\ promise = <<>>
    /\ started = <<>>
    /\ tree = <<>>

NextAncestor ==
    \/ AncestorReturn
    \/ AncestorAgain

SpecAncestor == InitAncestor /\ [][NextAncestor]_vars

(***************************************************************************)
(* findCommonAncestor where process.platform is 'win32': path.sep is the   *)
(* backslash, a root is a drive ('C:\') or a UNC share ('\\server\share\') *)
(***************************************************************************)
Backslash == "\\"

\* an input of the Windows run: its root marker components (a drive, or a
\* server and a share) and the segments below the root
win32String(p) ==
    IF p.kind = "drive"
    THEN p.root[1] \o <<Backslash>> \o arrayJoin(p.segs, Backslash)
    ELSE <<Backslash, Backslash>> \o arrayJoin(p.root \o p.segs, Backslash)

\* the number of leading components of a split absolute path that make its
\* root: 'C:' or '', '', server, share
win32RootLen(parts) ==
    IF Len(parts) >= 4 /\ parts[1] = <<>> /\ parts[2] = <<>> THEN 4 ELSE 1

\* path.win32.resolve of an absolute path: the root is kept and always ends
\* with a backslash, the rest is normalised and joined
resolveWin32(s) ==
    LET parts == split(s, Backslash)
        n     == win32RootLen(parts)
        tail  == normalizeParts(SubSeq(parts, n + 1, Len(parts)), <<>>)
    IN  arrayJoin(SubSeq(parts, 1, n), Backslash) \o <<Backslash>>
        \o arrayJoin(tail, Backslash)

\* path.win32.dirname of a resolved path: a root is its own parent, and the
\* backslash that ends the root is kept
dirnameWin32(s) ==
    LET parts == split(s, Backslash)
        n     == win32RootLen(parts)
        tail  == SelectSeq(SubSeq(parts, n + 1, Len(parts)),
                           LAMBDA c : c # <<>>)
    IN  arrayJoin(SubSeq(parts, 1, n), Backslash) \o <<Backslash>>
        \o arrayJoin(dirname(tail), Backslash)

\* fs.statSync on Windows: fs is keyed by the non-empty components
statSyncWin32(s) ==
    LET key == SelectSeq(split(s, Backslash), LAMBDA c : c # <<>>)
    IN  IF key \in DOMAIN fs THEN fs[key] ELSE "ENOENT"

\* String.prototype.endsWith(':')
endsWithColon(s) == Len(s) > 0 /\ s[Len(s)] = ":"

\* the reconstruction on Windows: the UNC branch, the drive branch, then the
\* shared tail of the function (no common component, or the plain join)
reconstructWin32(common) ==
    IF Len(common) >= 4 /\ common[1] = <<>> /\ common[2] = <<>>
    THEN IF Len(common) = 3 /\ common[3] # <<>>
         THEN <<Backslash, Backslash>> \o common[3]
         ELSE <<Backslash, Backslash>>
              \o arrayJoin(SubSeq(common, 3, Len(common)), Backslash)
    ELSE IF Len(common) >= 1 /\ endsWithColon(common[1])
    THEN IF Len(common) = 1 THEN common[1] \o <<Backslash>>
         ELSE IF Len(common) = 2 /\ common[2] = <<>>
              THEN common[1] \o <<Backslash>>
              ELSE common[1] \o <<Backslash>>
                   \o arrayJoin(Tail(common), Backslash)
    ELSE IF common = <<>> THEN <<>>
    ELSE LET joinedPath == arrayJoin(common, Backslash)
         IN  IF endsWithColon(joinedPath)
                /\ ~ \E i \in 1..Len(joinedPath) : joinedPath[i] = Backslash
             THEN joinedPath \o <<Backslash>>
             ELSE joinedPath

\* findCommonAncestor on Windows
findCommonAncestorWin32(paths) ==
    IF paths = <<>> THEN pathString(cwd)
    ELSE LET resolvedPaths ==
                 [i \in 1..Len(paths) |-> resolveWin32(paths[i])]
         IN  IF Len(resolvedPaths) = 1
             THEN IF statSyncWin32(resolvedPaths[1]) = "dir"
                  THEN resolvedPaths[1]
                  ELSE dirnameWin32(resolvedPaths[1])
             ELSE reconstructWin32(commonComponents(
                      [i \in 1..Len(resolvedPaths) |->
                          split(resolvedPaths[i], Backslash)], 1))

\* one call on Windows
Win32Return ==
    /\ ancestor # <<>>
    /\ ancestor.state = "called"
    /\ ancestor' =
         [ancestor EXCEPT
            !.state = "returned",
            !.result = findCommonAncestorWin32(
                           [i \in 1..Len(ancestor.paths) |->
                               win32String(ancestor.paths[i])])]
    /\ UNCHANGED notAncestorVars

\* longest input list of the Windows run
MaxWin32Paths == 2

\* drives C: and D:, servers s and t, shares h and k
Win32Paths ==
    {[kind |-> "drive", root |-> <<r>>, segs |-> g] :
        r \in {<<"C", ":">>, <<"D", ":">>},
        g \in {<<>>, << <<"a">> >>, << <<"a">>, <<"b">> >>, << <<"c">> >>}}
    \cup
    {[kind |-> "unc", root |-> r, segs |-> g] :
        r \in {<< <<"s">>, <<"h">> >>, << <<"s">>, <<"k">> >>,
               << <<"t">>, <<"h">> >>},
        g \in {<<>>, << <<"a">> >>, << <<"c">> >>}}

\* C:\a is a directory, C:\a\b a regular file, the share \\s\h a directory
Win32Fs ==
    (<< <<"C", ":">> >> :> "dir")
    @@ (<< <<"C", ":">>, <<"a">> >> :> "dir")
    @@ (<< <<"C", ":">>, <<"a">>, <<"b">> >> :> "file")
    @@ (<< <<"s">>, <<"h">> >> :> "dir")
    @@ (<< <<"s">>, <<"h">>, <<"a">> >> :> "file")

InitWin32 ==
    /\ fs = Win32Fs
    /\ cwd = << <<"x">> >>
    /\ gitignore = ENOENT
    /\ argv = <<>>
    /\ options = <<>>
    /\ ancestor \in {[paths |-> ps, state |-> "called", result |-> <<>>,
                      prev |-> <<>>] :
                       ps \in UNION {[1..n -> Win32Paths] :
                                        n \in 0..MaxWin32Paths}}
    /\ targetPath = <<>>
    /\ call = <<>>
    /\ stats = [foundFiles |-> 0, skippedFiles |-> 0]
    /\ printed = <<>>
    /\ printArgs = <<>>
    /\ sink = <<>>
    /\ main = <<>>
    /\ log = {}
    /\ concurrency = LimitConcurrency
    /\ running = 0
    /\ queue = <<>>
    /\ fnKind = <<>>
    /\ task = <<>>
    /\ promise = <<>>
    /\ started = <<>>
    /\ tree = <<>>

NextWin32 == Win32Return

SpecWin32 == InitWin32 /\ [][NextWin32]_vars

(***************************************************************************)
(* run (src/cli/main.ts) with loadIgnore (src/cli/ignore.ts) and           *)
(* renderTree (src/cli/tree.ts).  In SpecRun gitignore gives the text of   *)
(* the .gitignore of each directory, options holds the FileTreeOptions     *)
(* while the tree is built and the ProcessPathOptions afterwards, and main *)
(* is the record [paths, next, phase, report]: the resolved inputs, the    *)
(* index of the input the loop is at, what run awaits, and the statistics  *)
(* it printed.                                                             *)
(***************************************************************************)
\* const giPath = path.join(cwd, '.gitignore'): the directory it lies in
giDir == cwd

\* loadIgnore(argv, debug)
loadIgnoreResult ==
    [mainIg |-> loadIgnore(argv.ignoreGitignore, gitignore[giDir]),
     baseIgnorePath |-> cwd]

\* const treeRoot = findCommonAncestor(treePaths)
treeRoot(treePaths) ==
    findCommonAncestor([i \in 1..Len(treePaths) |-> pathString(treePaths[i])])

\* the FileTreeOptions renderTree builds
treeOpts(treePaths) ==
    [baseIgnorePath |-> segmentsOf(treeRoot(treePaths)),
     mainIg |-> loadIgnoreResult.mainIg,
     includeHidden |-> argv.includeHidden,
     includeBinaryFiles |-> argv.includeBinary,
     ignorePatterns |-> argv.ignore,
     ignoreFilesOnly |-> argv.ignoreFilesOnly]

\* writer('Folder structure:'), writer(treeRoot + path.sep), writer('---')
treeHeader(treePaths) ==
    << written(<<"Folder structure:">>),
       written(treeRoot(treePaths) \o <<"/">>), written(Rule) >>

\* the ProcessPathOptions run builds for each input
processOptions ==
    [extensions |-> argv.extension,
     includeHidden |-> argv.includeHidden,
     ignoreFilesOnly |-> argv.ignoreFilesOnly,
     ignorePatterns |-> argv.ignore,
     writer |-> "writer",
     claudeXml |-> argv.cxml,
     markdown |-> argv.markdown,
     lineNumbers |-> argv.lineNumbers,
     mainIg |-> loadIgnoreResult.mainIg,
     baseIgnorePath |-> loadIgnoreResult.baseIgnorePath,
     includeBinaryFiles |-> argv.includeBinary]

\* fsp.access of the input the loop is at completes: an input that exists
\* is given to processPath, which runs up to its stat; one that does not is
\* reported and the loop goes on
MainAccessDone ==
    /\ main # <<>>
    /\ main.phase = "access"
    /\ LET p == main.paths[main.next]
       IN  IF p \in DOMAIN fs
           THEN /\ options' = processOptions
                /\ targetPath' = p
                /\ Install(startCall([Machine EXCEPT
                                        !.call = [q \in DOMAIN fs |-> "none"]],
                                     p))
                /\ main' = [main EXCEPT !.phase = "process"]
                /\ UNCHANGED sink
           ELSE /\ log' = log \cup {<<"notFound", p>>}
                /\ main' = loopNext(main, stats)
                /\ sink' = closeWrapper(sink, main')
                /\ UNCHANGED <<options, targetPath, call, running, queue,
                               started>>
    /\ UNCHANGED <<fs, cwd, gitignore, argv, stats, printed, printArgs,
                   concurrency, fnKind, task, promise, tree, ancestor>>

nope == <<"n", "o", "p", "e">>
\* /w with a hidden file, a text file and the directory build, which holds
\* a script and an image
FsRun ==
    (<<w>> :> "dir") @@ (<<w, dot_env>> :> "file")
    @@ (<<w, note_txt>> :> "file") @@ (<<w, build>> :> "dir")
    @@ (<<w, build, x_js>> :> "file") @@ (<<w, build, image_png>> :> "file")
\* process.cwd(): the top directory or the one below it
RunCwds == {<<w>>, <<w, build>>}
\* no .gitignore anywhere, one in /w, or one in /w/build
RunGitignores ==
    << (<<w>> :> ENOENT) @@ (<<w, build>> :> ENOENT),
       (<<w>> :> GitignoreText) @@ (<<w, build>> :> ENOENT),
       (<<w>> :> ENOENT) @@ (<<w, build>> :> GitignoreText) >>
\* the resolved inputs: one directory, one file, a directory and a file of
\* it, a directory and a file beside it, a path that does not exist
RunInputs ==
    { << <<w>> >>, << <<w, build>> >>, << <<w, note_txt>> >>,
      << <<w>>, <<w, note_txt>> >>, << <<w, build>>, <<w, note_txt>> >>,
      << <<w, nope>>, <<w, note_txt>> >> }
\* the options yargs gives when none is written on the command line
DefaultArgv ==
    [ignoreGitignore |-> FALSE, tree |-> FALSE, includeHidden |-> FALSE,
     includeBinary |-> FALSE, ignore |-> <<>>, ignoreFilesOnly |-> FALSE,
     extension |-> <<>>, cxml |-> FALSE, markdown |-> FALSE,
     lineNumbers |-> FALSE]
\* the command lines: --cxml alone, and --tree alone or with
\* --include-hidden --include-binary, --ignore build, --ignore build
\* --ignore-files-only, --ignore-gitignore
RunArgv ==
    LET withTree == [DefaultArgv EXCEPT !.tree = TRUE]
    IN  { [DefaultArgv EXCEPT !.cxml = TRUE],
          withTree,
          [withTree EXCEPT !.includeHidden = TRUE, !.includeBinary = TRUE],
          [withTree EXCEPT !.ignore = <<build>>],
          [withTree EXCEPT !.ignore = <<build>>, !.ignoreFilesOnly = TRUE],
          [withTree EXCEPT !.ignoreGitignore = TRUE] }

\* run up to its first await of a filesystem operation: the stat of
\* generateFileTree with --tree, the access of the first input without
InitRun ==
    /\ fs = FsRun
    /\ cwd \in RunCwds
    /\ \E g \in DOMAIN RunGitignores : gitignore = RunGitignores[g]
    /\ argv \in RunArgv
    /\ stats = [foundFiles |-> 0, skippedFiles |-> 0]
    /\ \E paths \in RunInputs :
         LET mn == [paths |-> paths, next |-> 0, phase |-> "tree",
                    report |-> <<>>]
         IN  IF argv.tree
             THEN /\ options = treeOpts(paths)
                  /\ tree = generateFileTree(
                               paths,
                               {p \in Range(paths) : p \notin DOMAIN fs},
                               {}, 1, <<>>)
                  /\ main = treeResume(mn, tree, stats)
                  /\ sink = treeOutput(treeHeader(paths), mn, tree)
             ELSE /\ options = <<>>
                  /\ tree = [state |-> "notCalled", op |-> "none",
                             fileSet |-> <<>>]
                  /\ main = loopNext(mn, stats)
                  /\ sink = openWrapper(<<>>)
    /\ targetPath = <<>>
    /\ call = [p \in DOMAIN fs |-> "none"]
    /\ printed = <<>>
    /\ printArgs = <<>>
    /\ log = {}
    /\ concurrency = LimitConcurrency
    /\ running = 0
    /\ queue = <<>>
    /\ fnKind = <<>>
    /\ task = <<>>
    /\ promise = <<>>
    /\ started = <<>>
    /\ ancestor = <<>>

NextRun ==
    \/ TreeStatDone
    \/ TreeReaddirDone
    \/ MainAccessDone
    \/ \E p \in DOMAIN fs : StatDone(p)
    \/ \E p \in DOMAIN fs : ReadFileDone(p)
    \/ \E p \in DOMAIN fs : ReaddirDone(p)

SpecRun == InitRun /\ [][NextRun]_vars

(***************************************************************************)
(* The Limiter class on its own: any limit, functions that resolve, reject *)
(* or throw.  The record l carries running, queue, task, promise, started. *)
(***************************************************************************)
FnKinds == {"resolve", "reject", "throw"}

RECURSIVE limNext(_, _)
\* variant: the catch branch forgets running--
limNextTask_noRelease(l, kinds, t) ==
    LET l1 == [l EXCEPT !.running = @ + 1, !.started = Append(@, t)]
    IN  IF kinds[t] = "throw"
        THEN LET l2 == limNext(l1, kinds)
             IN  [l2 EXCEPT !.promise[t] = "rejected", !.task[t] = "thrown"]
        ELSE [l1 EXCEPT !.task[t] = "running"]
\* the closure queued by add for task t: running++, then fn(); a throw of
\* fn is caught: running--, next(), reject(err)
limNextTask(l, kinds, t) ==
    LET l1 == [l EXCEPT !.running = @ + 1, !.started = Append(@, t)]
    IN  IF kinds[t] = "throw"
        THEN LET l2 == limNext([l1 EXCEPT !.running = @ - 1], kinds)
             IN  [l2 EXCEPT !.promise[t] = "rejected", !.task[t] = "thrown"]
        ELSE [l1 EXCEPT !.task[t] = "running"]

\* Limiter.next
limNext(l, kinds) ==
    IF canStart(l.running, l.queue)
    THEN LET s == queueShift(l.queue)
         IN  limNextTask([l EXCEPT !.queue = s.rest], kinds, s.first)
    ELSE l

LimInstall(l) ==
    /\ running' = l.running
    /\ queue' = l.queue
    /\ task' = l.task
    /\ promise' = l.promise
    /\ started' = l.started

\* Limiter.add(fn): the closure is pushed, then next()
LimAdd(kind) ==
    /\ Len(fnKind) < MaxTasks
    /\ LET t == Len(fnKind) + 1
           kinds == Append(fnKind, kind)
       IN  /\ fnKind' = kinds
           /\ LimInstall(limNext([running |-> running,
                                  queue |-> Append(queue, t),
                                  task |-> Append(task, "queued"),
                                  promise |-> Append(promise, "pending"),
                                  started |-> started], kinds))
    /\ UNCHANGED <<envVars, travVars, concurrency, utilVars>>

\* the promise fn returned settles: .then(resolve) or .catch(reject)
LimSettle(t) ==
    /\ t \in DOMAIN task
    /\ task[t] = "running"
    /\ task' = [task EXCEPT ![t] = "settled"]
    /\ promise' = [promise EXCEPT
                     ![t] = IF fnKind[t] = "resolve" THEN "resolved"
                            ELSE "rejected"]
    /\ UNCHANGED <<envVars, travVars, concurrency, running, queue, fnKind,
                   started, utilVars>>

\* variant: finally gives the slot back and does not call next()
LimFinally_noNext(t) ==
    /\ t \in DOMAIN task
    /\ task[t] = "settled"
    /\ running' = running - 1
    /\ task' = [task EXCEPT ![t] = "released"]
    /\ UNCHANGED <<envVars, travVars, concurrency, queue, fnKind, promise,
                   started, utilVars>>
\* .finally: running--, next()
LimFinally(t) ==
    /\ t \in DOMAIN task
    /\ task[t] = "settled"
    /\ LimInstall(limNext([running |-> running - 1,
                           queue |-> queue,
                           task |-> [task EXCEPT ![t] = "released"],
                           promise |-> promise,
                           started |-> started], fnKind))
    /\ UNCHANGED <<envVars, travVars, concurrency, fnKind, utilVars>>

\* new Limiter(concurrency)
InitLimiter ==
    /\ concurrency \in 1..MaxConcurrency
    /\ running = 0
    /\ queue = <<>>
    /\ fnKind = <<>>
    /\ task = <<>>
    /\ promise = <<>>
    /\ started = <<>>
    /\ fs = <<>>
    /\ cwd = <<>>
    /\ gitignore = ENOENT
    /\ argv = <<>>
    /\ options = <<>>
    /\ targetPath = <<>>
    /\ call = <<>>
    /\ stats = [foundFiles |-> 0, skippedFiles |-> 0]
    /\ printed = <<>>
    /\ printArgs = <<>>
    /\ sink = <<>>
    /\ main = <<>>
    /\ log = {}
    /\ tree = <<>>
    /\ ancestor = <<>>

NextLimiter ==
    \/ \E kind \in FnKinds : LimAdd(kind)
    \/ \E t \in 1..MaxTasks : LimSettle(t)
    \/ \E t \in 1..MaxTasks : LimFinally(t)

SpecLimiter == InitLimiter /\ [][NextLimiter]_vars

(***************************************************************************)
(* Properties                                                              *)
(***************************************************************************)
\* a stat, readdir or readFile of p is outstanding
Pending(p) == call[p] \in {"stat", "readFile", "readdir"}
\* nothing is left that could still complete
Quiescent == \A p \in DOMAIN call : ~ Pending(p)

\* C1: the promise of the top-level processPath call settles: once no
\* filesystem operation is outstanding any more, whatever the shape of the
\* tree and the order of the completions, the top-level call has returned.
C1_TopLevelSettles == Quiescent => call[targetPath] = "done"

\* tasks whose body has started and whose slot is not yet given back
ActiveTasks == {t \in DOMAIN task : task[t] \in {"running", "settled"}}

\* C2: at every instant the number of tasks whose body has started and has
\* not settled, and the counter Limiter.running that covers them, are at
\* most the configured limit.
C2_RunningAtMostLimit ==
    /\ Cardinality({t \in DOMAIN task : task[t] = "running"}) <= running
    /\ running <= concurrency
\* the limiter is saturated and a task is waiting
C2_Witness == running = concurrency /\ Len(queue) > 0

\* C3: task bodies start in the order of the add calls (tasks are numbered
\* in submission order), whether or not they had to wait.
C3_StartInSubmissionOrder ==
    \A i, j \in 1..Len(started) : i < j => started[i] < started[j]
\* more tasks have started than the limit allows at once, one is running
\* and another still waits behind it
C3_Witness ==
    /\ Len(started) > concurrency
    /\ Len(queue) > 0
    /\ \E t \in DOMAIN task : task[t] = "running" /\ t > concurrency

\* C4: a task that fails gives its slot back exactly once.  When the
\* promise of fn rejected, its finally step finds the add promise rejected,
\* and either starts the head of the wait queue or leaves running one
\* lower; when fn throws, the add promise is rejected in the same step and
\* no task is left waiting beside a free slot; in both cases running again
\* counts exactly the tasks that hold a slot.
C4_FailureReleasesSlot ==
    [][\A t \in DOMAIN task' :
         /\ (t \in DOMAIN task /\ task[t] = "settled" /\ task'[t] = "released"
             /\ fnKind[t] = "reject")
            => /\ promise[t] = "rejected"
               /\ promise'[t] = "rejected"
               /\ IF queue = <<>> THEN running' = running - 1
                  ELSE /\ Len(started') > Len(started)
                       /\ started'[Len(started) + 1] = Head(queue)
               /\ running' = Cardinality(ActiveTasks')
         /\ (task'[t] = "thrown" /\ (t \notin DOMAIN task \/ task[t] = "queued"))
            => /\ promise'[t] = "rejected"
               /\ running' = Cardinality(ActiveTasks')
               /\ (queue' = <<>> \/ running' = concurrency)
      ]_vars
\* a rejected task gave its slot to a task that threw, which gave it to a
\* third task
C4_Witness ==
    \E t, u, v \in DOMAIN task :
        /\ t < u /\ u < v
        /\ fnKind[t] = "reject" /\ task[t] = "released"
        /\ promise[t] = "rejected"
        /\ task[u] = "thrown" /\ promise[u] = "rejected"
        /\ task[v] = "running"
        /\ running = 1

(***************************************************************************)
(* The filter stages as the specification words them, and what one step    *)
(* of processPath did to a path                                            *)
(***************************************************************************)
\* q lies strictly below p
Below(p, q) == Len(q) > Len(p) /\ IsPrefix(p, q)
\* the base name starts with '.'
HasDotName(p) == Len(basename(p)) > 0 /\ basename(p)[1] = "."
\* the rule set reports the base-relative path as ignored
GitIgnored(p) == ignores(options.mainIg, relativePath(p))
\* a rule written in <cwd>/.gitignore matches the base-relative path
ListedInGitignore(p) ==
    /\ gitignore # ENOENT
    /\ IgnoreMatches(parseRules(gitignore), relativePath(p))
\* a custom pattern matches the base-relative path
CustomMatch(p) ==
    \E i \in 1..Len(options.ignorePatterns) :
        minimatch(relative(options.baseIgnorePath, p),
                  options.ignorePatterns[i])
\* the lower-cased extension is in the denylist
BinaryByExt(p) == toLowerCase(extname(p)) \in Range(BINARY_FILE_EXTENSIONS)
\* p is not dropped by the hidden or the gitignore stage
PassesCommonFilters(p) ==
    ~ (HasDotName(p) /\ ~ options.includeHidden) /\ ~ GitIgnored(p)

\* this step is the completion of the stat of p
StatStep(p) == call[p] = "stat" /\ call'[p] # "stat"
\* ... and the stat succeeded
StatOkStep(p) == StatStep(p) /\ <<"statError", p>> \notin log'
NothingCounted == stats' = stats /\ printed' = printed
\* p's call is over, nothing was counted or printed, no entry of p visited
Dropped(p) ==
    /\ call'[p] = "done"
    /\ NothingCounted
    /\ \A q \in Children(p) : call'[q] = "none"
\* p's call is over and counted as skipped, without a read
SkippedCounted(p) ==
    /\ call'[p] = "done"
    /\ stats' = [stats EXCEPT !.skippedFiles = @ + 1]
    /\ printed' = printed
\* the file is being read
ReadIssued(p) == call'[p] = "readFile" /\ NothingCounted
\* the directory is being listed
ListIssued(p) == call'[p] = "readdir" /\ NothingCounted
\* what the stages after hidden and gitignore allow for p
TypeStages(p) ==
    IF fs[p] = "dir"
    THEN IF CustomMatch(p) /\ ~ options.ignoreFilesOnly
         THEN Dropped(p) ELSE ListIssued(p)
    ELSE ReadIssued(p) \/ SkippedCounted(p)

\* C5: when the promise of a directory's processPath call has resolved,
\* every call of its subtree has settled, and from then on nothing of that
\* subtree moves, is printed or is counted.
C5_ParentAfterSubtree ==
    /\ [](\A p \in DOMAIN call : \A q \in DOMAIN call :
            (fs[p] = "dir" /\ call[p] = "done" /\ Below(p, q))
            => call[q] \in {"none", "done"})
    /\ [][\A p \in DOMAIN call : \A q \in DOMAIN call :
            (fs[p] = "dir" /\ call[p] = "done" /\ Below(p, q))
            => /\ call'[q] = call[q]
               /\ (printed' # printed => printed'[Len(printed')] # q)]_vars
\* a directory below the top has resolved after a file of it was printed,
\* and the whole run has resolved after two emissions
C5_Witness ==
    /\ call[targetPath] = "done"
    /\ Len(printed) >= 2
    /\ \E p \in DOMAIN call : \E q \in DOMAIN call :
           /\ p # targetPath /\ fs[p] = "dir" /\ call[p] = "done"
           /\ Below(p, q) /\ q \in Range(printed)

\* C6: a visited path whose base name starts with '.' is, when
\* includeHidden is false, dropped with both counters unchanged, and if it
\* is a directory nothing below it is ever visited or printed; when
\* includeHidden is true it is not dropped as hidden and meets the
\* remaining filters like any other path.
C6_Hidden ==
    /\ [](\A p \in DOMAIN call :
            (HasDotName(p) /\ ~ options.includeHidden /\ call[p] # "none")
            => /\ p \notin Range(printed)
               /\ \A q \in DOMAIN call :
                    Below(p, q) => call[q] = "none" /\ q \notin Range(printed))
    /\ [][\A p \in DOMAIN call :
            (StatStep(p) /\ HasDotName(p))
            => IF ~ options.includeHidden THEN Dropped(p)
               ELSE /\ <<"skipHidden", p>> \notin log'
                    /\ StatOkStep(p)
                       => IF GitIgnored(p) THEN Dropped(p) ELSE TypeStages(p)
      ]_vars
\* the hidden directory and the hidden file were dropped, the file inside
\* the hidden directory was never visited, the visible file was printed
C6_Witness ==
    /\ ~ options.includeHidden
    /\ call[targetPath] = "done"
    /\ <<"skipHidden", <<w, dot_git>> >> \in log
    /\ <<"skipHidden", <<w, dot_env>> >> \in log
    /\ call[<<w, dot_git, config>>] = "none"
    /\ printed = << <<w, a_txt>> >>
    /\ stats = [foundFiles |-> 1, skippedFiles |-> 0]

\* C7: a path the rule set reports as ignored is dropped before the file
\* filters: not printed, not listed, neither counter changed; with the
\* ignore-gitignore flag the rule set ignores nothing, and a path a rule of
\* the .gitignore file names goes on to the remaining filters.
C7_Gitignore ==
    /\ [](argv.ignoreGitignore
          => \A p \in DOMAIN fs :
                ~ GitIgnored(p) /\ <<"skipGitignore", p>> \notin log)
    /\ [][\A p \in DOMAIN call :
            StatOkStep(p)
            => /\ GitIgnored(p) => Dropped(p)
               /\ (argv.ignoreGitignore /\ ListedInGitignore(p)
                   /\ ~ (HasDotName(p) /\ ~ options.includeHidden))
                  => TypeStages(p)
      ]_vars
\* the rules of the file dropped app.log and the directory build, whose
\* file was never visited; only note.txt was printed; counters 1 and 0
C7_Witness ==
    /\ ~ argv.ignoreGitignore
    /\ call[targetPath] = "done"
    /\ <<"skipGitignore", <<w, app_log>> >> \in log
    /\ <<"skipGitignore", <<w, build>> >> \in log
    /\ call[<<w, build, x_js>>] = "none"
    /\ printed = << <<w, note_txt>> >>
    /\ stats = [foundFiles |-> 1, skippedFiles |-> 0]

\* C8: a file that reaches the binary stage with an extension of the
\* denylist (lower-cased) is, when includeBinaryFiles is false, counted as
\* skipped without a read whatever the allow-list holds; when
\* includeBinaryFiles is true it is read unless the allow-list rejects it,
\* and a file whose read succeeds is printed and counted as found.
C8_BinaryBeforeExtensions ==
    /\ [][\A p \in DOMAIN call :
            (StatOkStep(p) /\ fs[p] = "file" /\ PassesCommonFilters(p)
             /\ ~ CustomMatch(p) /\ BinaryByExt(p))
            => IF ~ options.includeBinaryFiles THEN SkippedCounted(p)
               ELSE IF options.extensions = <<>> THEN ReadIssued(p)
               ELSE IF extname(p) # toLowerCase(extname(p))
               THEN ReadIssued(p) \/ SkippedCounted(p)
               ELSE IF extname(p) \in Range(options.extensions)
               THEN ReadIssued(p) ELSE SkippedCounted(p)
      ]_vars
    /\ [][\A p \in DOMAIN call :
            (call[p] = "readFile" /\ call'[p] # "readFile"
             /\ <<"readError", p>> \notin log')
            => /\ printed' = Append(printed, p)
               /\ stats' = [stats EXCEPT !.foundFiles = @ + 1]
      ]_vars
\* image.png and PIC.PNG were skipped as binary although the allow-list
\* names .png
C8_Witness ==
    /\ ~ options.includeBinaryFiles
    /\ <<".", "p", "n", "g">> \in Range(options.extensions)
    /\ <<"skipBinary", <<w, image_png>> >> \in log
    /\ <<"skipBinary", <<w, PIC_PNG>> >> \in log
    /\ stats.skippedFiles >= 2
    /\ printed = <<>>

\* C9: a file that reaches the extension stage survives (is read) exactly
\* when the allow-list is empty or holds its extension as written in the
\* file name, compared case-sensitively; otherwise it is counted as
\* skipped and not read.
C9_ExactCaseExtension ==
    [][\A p \in DOMAIN call :
         (StatOkStep(p) /\ fs[p] = "file" /\ PassesCommonFilters(p)
          /\ ~ CustomMatch(p)
          /\ ~ (BinaryByExt(p) /\ ~ options.includeBinaryFiles))
         => IF options.extensions = <<>>
               \/ extname(p) \in Range(options.extensions)
            THEN ReadIssued(p) ELSE SkippedCounted(p)
      ]_vars

ErrorKinds == {"statError", "readError", "readdirError"}
\* a stat, a listing or a read of p has failed
IoFailed(p) == \E e \in ErrorKinds : <<e, p>> \in log
\* this step is a filesystem operation on p failing
FailStep(p) == \E e \in ErrorKinds : <<e, p>> \in log' \ log
\* the directory p is listed and its entries are visited
Descends(p) ==
    /\ fs[p] = "dir"
    /\ PassesCommonFilters(p)
    /\ ~ (CustomMatch(p) /\ ~ options.ignoreFilesOnly)
    /\ ~ IoFailed(p)
\* the traversal gets to p: every directory from the top down to p's parent
\* is listed
RECURSIVE Reachable(_)
Reachable(p) ==
    \/ p = targetPath
    \/ /\ Len(p) > Len(targetPath)
       /\ IsPrefix(targetPath, p)
       /\ Reachable(dirname(p))
       /\ Descends(dirname(p))
\* the file p passes every filter (the allow-list is compared with the
\* lower-cased extension, as the code does)
AdmittedFile(p) ==
    /\ fs[p] = "file"
    /\ PassesCommonFilters(p)
    /\ ~ CustomMatch(p)
    /\ ~ (BinaryByExt(p) /\ ~ options.includeBinaryFiles)
    /\ \/ options.extensions = <<>>
       \/ toLowerCase(extname(p)) \in Range(options.extensions)
\* the file p is rejected by the custom-ignore, binary or extension stage
RejectedFile(p) ==
    fs[p] = "file" /\ PassesCommonFilters(p) /\ ~ AdmittedFile(p)
\* the files a completed run has printed
ExpectedPrinted ==
    {p \in DOMAIN fs : Reachable(p) /\ AdmittedFile(p) /\ ~ IoFailed(p)}
\* the files a completed run has counted as skipped
ExpectedSkipped ==
    {p \in DOMAIN fs : Reachable(p) /\ RejectedFile(p) /\ ~ IoFailed(p)}

\* C11: a failed stat, listing or read of a path ends that path's call in
\* the same step with nothing printed and no counter changed, and nothing
\* below the path is visited; when the run has resolved, every path that
\* does not lie below a failed or filtered directory has been processed to
\* completion, and the files printed are exactly the admitted files the
\* tree holds once the failed paths and what lies below them are taken out.
C11_FailureEndsOnlyItsBranch ==
    /\ [][\A p \in DOMAIN call :
            FailStep(p)
            => /\ call'[p] = "done"
               /\ NothingCounted
               /\ \A q \in DOMAIN call : Below(p, q) => call'[q] = "none"
      ]_vars
    /\ [](\A p \in DOMAIN call : IoFailed(p) => p \notin Range(printed))
    /\ [](call[targetPath] = "done"
          => /\ \A p \in DOMAIN call :
                  call[p] = IF Reachable(p) THEN "done" ELSE "none"
             /\ Range(printed) = ExpectedPrinted)
\* the listing of build and the stat of app.log failed; note.txt, their
\* sibling, was printed and the run resolved
C11_Witness ==
    /\ call[targetPath] = "done"
    /\ targetPath = <<w>>
    /\ <<"readdirError", <<w, build>> >> \in log
    /\ <<"statError", <<w, app_log>> >> \in log
    /\ call[<<w, build, x_js>>] = "none"
    /\ printed = << <<w, note_txt>> >>
    /\ stats = [foundFiles |-> 1, skippedFiles |-> 0]

\* the regular files whose processPath call has started
VisitedFiles ==
    {p \in DOMAIN call : fs[p] = "file" /\ call[p] \notin {"none", "queued"}}
CountedSum == stats.foundFiles + stats.skippedFiles
\* the sum of the counters never exceeds the number of visited files, and a
\* step changes the counters only by adding one to one of them as the call
\* of one file ends; a call that has ended stays ended
CountersBounded ==
    /\ [](CountedSum <= Cardinality(VisitedFiles))
    /\ [][/\ stats'.foundFiles >= stats.foundFiles
          /\ stats'.skippedFiles >= stats.skippedFiles
          /\ \A p \in DOMAIN call : call[p] = "done" => call'[p] = "done"
          /\ stats' # stats
             => /\ CountedSum' = CountedSum + 1
                /\ \E p \in DOMAIN call :
                      /\ fs[p] = "file"
                      /\ call[p] \in {"stat", "readFile"}
                      /\ call'[p] = "done"
      ]_vars
\* p was left out by the hidden or the gitignore stage
ExcludedEarly(p) == (HasDotName(p) /\ ~ options.includeHidden) \/ GitIgnored(p)
\* the run has ended with fewer files counted than visited
EndedStrict ==
    call[targetPath] = "done" /\ CountedSum < Cardinality(VisitedFiles)

\* C12 as stated: the sum of the counters is at most the number of regular
\* files visited so far, the counters only increase, a file adds at most 1
\* and a directory 0, and at the end of the run the sum is smaller than the
\* number of visited files only if some visited file hit a read error or
\* was excluded as hidden or gitignored.
C12_StrictOnlyByReadErrorOrExclusion ==
    /\ CountersBounded
    /\ [](EndedStrict
          => \E p \in VisitedFiles :
                <<"readError", p>> \in log \/ ExcludedEarly(p))

\* C12 as amended: the same, with a failed stat of a visited file as a
\* further reason for the sum to stay below the number of visited files.
C12_StrictOnlyByErrorOrExclusion ==
    /\ CountersBounded
    /\ [](EndedStrict
          => \E p \in VisitedFiles :
                \/ <<"readError", p>> \in log
                \/ <<"statError", p>> \in log
                \/ ExcludedEarly(p))
\* a run over three files has ended with one found and one skipped: the
\* third hit a failed stat, no read failed, no file was hidden or ignored
C12_Witness ==
    /\ EndedStrict
    /\ Cardinality(VisitedFiles) = 3
    /\ stats.foundFiles = 1 /\ stats.skippedFiles = 1
    /\ \E p \in VisitedFiles : <<"statError", p>> \in log
    /\ \A p \in VisitedFiles :
           <<"readError", p>> \notin log /\ ~ ExcludedEarly(p)

\* the files some skip branch of the file filters has logged
SkipLogged ==
    {p \in DOMAIN fs :
        \E o \in {"skipIgnoreFile", "skipBinary", "skipExt"} : <<o, p>> \in log}

\* C13: at every moment foundFiles is the number of printer calls made, no
\* file is printed twice, and skippedFiles is the number of files a skip
\* branch has logged; when the run has resolved, foundFiles is the number
\* of files that pass every filter and were read, skippedFiles the number
\* of files the custom-ignore, binary or extension stage rejects, both
\* fixed by the tree, the options and the operations that failed, whatever
\* the order in which the branches completed.
C13_CountersDeterministic ==
    /\ stats.foundFiles = Len(printed)
    /\ \A i, j \in 1..Len(printed) : printed[i] = printed[j] => i = j
    /\ stats.skippedFiles = Cardinality(SkipLogged)
    /\ call[targetPath] = "done"
       => /\ stats.foundFiles = Cardinality(ExpectedPrinted)
          /\ stats.skippedFiles = Cardinality(ExpectedSkipped)
\* two sibling files were printed in the reverse of the order in which
\* they were started and a third file was skipped: counters 2 and 1
C13_Witness ==
    /\ call[targetPath] = "done"
    /\ printed = << <<w, note_txt>>, <<w, app_log>> >>
    /\ <<"skipIgnoreFile", <<w, build, x_js>> >> \in log
    /\ stats = [foundFiles |-> 2, skippedFiles |-> 1]

\* what the printer is to be given for the file p
ExpectedArgs(p) ==
    [writer |-> "writer", filePath |-> p,
     content |-> <<"/", "/", " ">> \o p[Len(p)] \o <<"\n">>,
     claudeXml |-> options.claudeXml, markdown |-> options.markdown,
     lineNumbers |-> options.lineNumbers]
\* this step is the read of p completing with its content
ReadOkStep(p) ==
    /\ call[p] = "readFile"
    /\ call'[p] # "readFile"
    /\ <<"readError", p>> \notin log'

\* C14: the step in which the read of a file completes with its content
\* makes one printer call, with the sink, the absolute path, the content
\* and the three format flags of the options, and adds one to foundFiles;
\* no other step calls the printer or changes foundFiles; no file is given
\* to the printer twice, none that a filter rejects or whose read failed;
\* and when the call has resolved every admitted file of the subtree that
\* was read has been given to the printer.
C14_PrinterOncePerAdmittedFile ==
    /\ [][\A p \in DOMAIN call :
            ReadOkStep(p)
            => /\ printArgs' = Append(printArgs, ExpectedArgs(p))
               /\ stats'.foundFiles = stats.foundFiles + 1
      ]_vars
    /\ [][(printArgs' # printArgs \/ stats'.foundFiles # stats.foundFiles)
          => \E p \in DOMAIN call : ReadOkStep(p)]_vars
    /\ [](/\ \A i, j \in 1..Len(printArgs) :
               printArgs[i].filePath = printArgs[j].filePath => i = j
          /\ \A i \in 1..Len(printArgs) :
               /\ printArgs[i].filePath \in DOMAIN fs
               /\ AdmittedFile(printArgs[i].filePath)
               /\ <<"readError", printArgs[i].filePath>> \notin log
          /\ stats.foundFiles = Len(printArgs))
    /\ [](call[targetPath] = "done"
          => {printArgs[i].filePath : i \in 1..Len(printArgs)}
             = ExpectedPrinted)
\* with --cxml and --line-numbers, a.txt of the directory was printed with
\* its content, the hidden file was not, and the call has resolved
C14_Witness ==
    /\ call[targetPath] = "done"
    /\ targetPath = <<w>>
    /\ <<"skipHidden", <<w, dot_env>> >> \in log
    /\ printArgs =
         << [writer |-> "writer", filePath |-> <<w, a_txt>>,
             content |-> <<"/", "/", " ", "a", ".", "t", "x", "t", "\n">>,
             claudeXml |-> TRUE, markdown |-> FALSE, lineNumbers |-> TRUE] >>
    /\ stats.foundFiles = 1

\* the place of p in the start order (0 when p has not started)
StartIndex(p) ==
    IF \E i \in 1..Len(started) : started[i] = p
    THEN CHOOSE i \in 1..Len(started) : started[i] = p
    ELSE 0
\* the scenario w/{b.txt, a.txt, c_sub/d.txt}, read from the top
SortScenario == fs = FsSort /\ targetPath = <<w>>

\* C15: of two children of one directory whose bodies have started, the
\* one whose name compares lower started first, whatever order the listing
\* had; in the scenario w/{b.txt, a.txt, c_sub/d.txt} the bodies start in
\* the order w, a.txt, b.txt, c_sub, c_sub/d.txt, and a run in which
\* every file is admitted and nothing fails ends with foundFiles at 3.
C15_ChildrenStartSorted ==
    /\ \A p, q \in DOMAIN call :
          (p # q /\ dirname(p) = dirname(q) /\ p # targetPath
           /\ q # targetPath /\ StartIndex(p) > 0 /\ StartIndex(q) > 0
           /\ localeCompareLess(basename(p), basename(q)))
          => StartIndex(p) < StartIndex(q)
    /\ \A i, j \in 1..Len(started) : started[i] = started[j] => i = j
    /\ SortScenario
       => \E n \in 0..5 :
             started = SubSeq(<< <<w>>, <<w, a_txt>>, <<w, b_txt>>,
                                <<w, c_sub>>, <<w, c_sub, d_txt>> >>, 1, n)
    /\ (SortScenario /\ call[targetPath] = "done"
        /\ \A p \in DOMAIN fs :
              ~ IoFailed(p) /\ (fs[p] = "file" => AdmittedFile(p)))
       => /\ Len(started) = 5
          /\ stats.foundFiles = 3
\* the scenario has ended with all five bodies started in sorted order and
\* three files found, d.txt printed first and a.txt last
C15_Witness ==
    /\ SortScenario
    /\ call[targetPath] = "done"
    /\ started = << <<w>>, <<w, a_txt>>, <<w, b_txt>>, <<w, c_sub>>,
                    <<w, c_sub, d_txt>> >>
    /\ printed = << <<w, c_sub, d_txt>>, <<w, b_txt>>, <<w, a_txt>> >>
    /\ stats.foundFiles = 3

(***************************************************************************)
(* The file tree                                                           *)
(***************************************************************************)
\* recurse goes on with p after its checks and its stat
TreeKept(p) ==
    LET rel == relative(options.baseIgnorePath, p)
    IN  /\ ~ (rel # <<>> /\ ignores(options.mainIg, rel))
        /\ ~ (HasDotName(p) /\ ~ options.includeHidden)
        /\ p \notin tree.badStat
        /\ ~ (CustomMatch(p) /\ (~ options.ignoreFilesOnly \/ fs[p] = "file"))
\* recurse is called for p: p is an input, or an entry of a directory that
\* is visited, kept and listed
RECURSIVE TreeReach(_)
TreeReach(p) ==
    \/ p \in Range(tree.paths)
    \/ /\ Len(p) > 1
       /\ dirname(p) \in DOMAIN fs
       /\ fs[dirname(p)] = "dir"
       /\ TreeReach(dirname(p))
       /\ TreeKept(dirname(p))
       /\ dirname(p) \notin tree.badDir
\* the files the tree is to show
TreeExpectedFiles ==
    {p \in DOMAIN fs :
        /\ fs[p] = "file"
        /\ TreeReach(p)
        /\ TreeKept(p)
        /\ ~ (BinaryByExt(p) /\ options.includeBinaryFiles # TRUE)}

\* C16: the promise of generateFileTree never rejects; when the stat or the
\* listing of a visited entry fails, the call still resolves and the tree
\* shows exactly the files that are left when the failing entries and what
\* lies below them are taken out.
C16_TreeNeverAborts ==
    /\ tree.state # "rejected"
    /\ tree.state = "resolved" => Range(tree.fileSet) = TreeExpectedFiles

\* the four-character blocks a rendered line is made of
TeeBlock    == <<"U+251C", "U+2500", "U+2500", " ">>
CornerBlock == <<"U+2514", "U+2500", "U+2500", " ">>
BarBlock    == <<"U+2502", " ", " ", " ">>
BlankBlock  == <<" ", " ", " ", " ">>
\* the k-th block of the line l, counted from 0
Block(l, k) == SubSeq(l, 4 * k + 1, 4 * k + 4)
\* l is k prefix blocks, a connector and a name
HasDepth(l, k) ==
    /\ Len(l) > 4 * k + 4
    /\ Block(l, k) \in {TeeBlock, CornerBlock}
    /\ \A j \in 0..(k - 1) : Block(l, j) \in {BarBlock, BlankBlock}
Depth(l) == CHOOSE k \in 0..Len(l) : HasDepth(l, k)
NameOf(l) == SubSeq(l, 4 * Depth(l) + 5, Len(l))
\* the line of the entry that the line i lies under at depth k
AncestorLine(L, i, k) ==
    CHOOSE j \in 2..(i - 1) :
        /\ Depth(L[j]) = k
        /\ \A m \in (j + 1)..(i - 1) : Depth(L[m]) > k
\* a later line is a sibling of the line i
HasLaterSibling(L, i) ==
    \E j \in (i + 1)..Len(L) :
        /\ Depth(L[j]) = Depth(L[i])
        /\ \A m \in (i + 1)..(j - 1) : Depth(L[m]) > Depth(L[i])
\* the relative path the line i stands for
LinePath(L, i) ==
    [k \in 1..(Depth(L[i]) + 1) |->
        IF k = Depth(L[i]) + 1 THEN NameOf(L[i])
        ELSE NameOf(L[AncestorLine(L, i, k - 1)])]
\* the relative paths of the files collected, and of the directories above
\* them
TreeEntries ==
    UNION {{SubSeq(r, 1, n) : n \in 1..Len(r)} :
             r \in {relative(options.baseIgnorePath, tree.fileSet[i]) :
                      i \in 1..Len(tree.fileSet)}}

C18_TreeDeterministic ==
    tree.round = 2
    => /\ tree.state # "rejected"
       /\ tree.state = "resolved" => tree.out = tree.prev.out
\* the second call met three files in another order than the first and
\* returned the same string
C18_Witness ==
    /\ tree.round = 2
    /\ tree.state = "resolved"
    /\ Len(tree.fileSet) = 3
    /\ tree.fileSet # tree.prev.fileSet
    /\ tree.out = tree.prev.out

(***************************************************************************)
(* The common ancestor                                                     *)
(***************************************************************************)
AncestorReturned == ancestor # <<>> /\ ancestor.state = "returned"
\* the longest list of leading segments that every path of S has
CommonPrefix(S) ==
    LET Shared == {c \in UNION {{SubSeq(p, 1, n) : n \in 0..Len(p)} : p \in S} :
                     \A p \in S : IsPrefix(c, p)}
    IN  CHOOSE c \in Shared : \A c2 \in Shared : Len(c2) <= Len(c)
\* the path strings of the examples
Str_a    == <<"/", "a">>
Str_a_b  == <<"/", "a", "/", "b">>
Str_root == <<"/">>

\* C19: for two or more absolute paths findCommonAncestor returns the
\* longest sequence of leading segments that is the same in all of them,
\* whole segments compared case-sensitively, '/' when only the root is
\* shared; an input that is a prefix of the others is returned as it is;
\* the order of the inputs does not matter (the expected value depends on
\* the set of inputs only)
C19_LongestCommonSegments ==
    (AncestorReturned /\ Len(ancestor.paths) >= 2)
    => LET ps == ancestor.paths
           S  == Range(ps)
       IN  /\ ancestor.result = <<"/">> \o arrayJoin(CommonPrefix(S), "/")
           /\ S = { << <<"a">>, <<"b">>, <<"c">> >>,
                    << <<"a">>, <<"b">>, <<"d">> >> }
              => ancestor.result = Str_a_b
           /\ S = { << <<"a">>, <<"b">> >>, << <<"x">>, <<"y">> >> }
              => ancestor.result = Str_root
           /\ S = { << <<"a">>, <<"b", "c">> >>, << <<"a">>, <<"b", "d">> >> }
              => ancestor.result = Str_a
           /\ S = { << <<"A">>, <<"b">> >>, << <<"a">>, <<"b">> >> }
              => ancestor.result = Str_root
           /\ \A p \in S : (\A q \in S : IsPrefix(p, q))
                 => ancestor.result = <<"/">> \o arrayJoin(p, "/")
\* '/a/bc' and '/a/bd' have given '/a', in this order
C19_Witness ==
    /\ AncestorReturned
    /\ ancestor.paths = << << <<"a">>, <<"b", "d">> >>,
                           << <<"a">>, <<"b", "c">> >> >>
    /\ ancestor.result = Str_a

\* the second call, with [p, p], has returned after the call with [p]
DoubledReturned == AncestorReturned /\ ancestor.prev # <<>>
\* C20 as stated: findCommonAncestor([p]) equals findCommonAncestor([p, p])
\* for every absolute path p, and [d, d] gives d for a directory d
C20_Idempotent ==
    DoubledReturned
    => /\ ancestor.result = ancestor.prev.result
       /\ (ancestor.paths[1] \in DOMAIN fs /\ fs[ancestor.paths[1]] = "dir")
          => ancestor.result = <<"/">> \o arrayJoin(ancestor.paths[1], "/")
\* C20: findCommonAncestor([p, p]) is p itself for every absolute path p;
\* findCommonAncestor([p]) is p when p is a directory, and the parent
\* directory of p when p is a regular file or does not exist, so the two
\* are equal for directories only
C20_IdempotentOnDirectories ==
    DoubledReturned
    => LET p     == ancestor.paths[1]
           text  == <<"/">> \o arrayJoin(p, "/")
           isDir == p \in DOMAIN fs /\ fs[p] = "dir"
       IN  /\ ancestor.result = text
           /\ isDir => ancestor.prev.result = text
           /\ ~ isDir
              => /\ ancestor.prev.result =
                      <<"/">> \o arrayJoin(SubSeq(p, 1, Len(p) - 1), "/")
                 /\ ancestor.prev.result # ancestor.result
\* the regular file /a/b/c alone has given /a/b, and twice has given
\* /a/b/c
C20_Witness ==
    /\ DoubledReturned
    /\ ancestor.paths[1] = << <<"a">>, <<"b">>, <<"c">> >>
    /\ fs[ancestor.paths[1]] = "file"
    /\ ancestor.prev.result = Str_a_b
    /\ ancestor.result = Str_a_b \o <<"/", "c">>

(***************************************************************************)
(* The common ancestor on Windows                                          *)
(***************************************************************************)
\* the root marker of an input: its drive letter or its UNC server
RootMarker(p) == <<p.kind, p.root[1]>>
\* the text of a root: 'C:\' for a drive, '\\server\share' for a share
RootText(p) ==
    IF p.kind = "drive" THEN p.root[1] \o <<"\\">>
    ELSE <<"\\", "\\">> \o p.root[1] \o <<"\\">> \o p.root[2]
\* a call on Windows with two or more inputs has returned
Win32Returned ==
    /\ ancestor # <<>>
    /\ ancestor.state = "returned"
    /\ Len(ancestor.paths) >= 2
    /\ \A i \in 1..Len(ancestor.paths) :
          ancestor.paths[i].kind \in {"drive", "unc"}

\* C21: on Windows, inputs on different drive letters or under different
\* UNC servers give the empty string; inputs that differ only below a
\* shared drive or a shared UNC share give that drive root or that share
C21_Win32RootMarkers ==
    Win32Returned
    => LET S == Range(ancestor.paths)
       IN  /\ (\E p, q \in S : RootMarker(p) # RootMarker(q))
              => ancestor.result = <<>>
           /\ \A p \in S :
                 (/\ Cardinality(S) >= 2
                  /\ \A q \in S : q.kind = p.kind /\ q.root = p.root
                  /\ CommonPrefix({q.segs : q \in S}) = <<>>)
                 => ancestor.result = RootText(p)

(***************************************************************************)
(* The limiter keeps its slots busy                                        *)
(***************************************************************************)
\* C27: the limiter is work-conserving: after any sequence of add calls,
\* completions and failures, whenever a task waits in the queue the running
\* count equals the limit, and the running count is never negative
C27_WorkConserving ==
    /\ Len(queue) > 0 => running = concurrency
    /\ running >= 0
\* after one task was rejected and released and another threw, a task
\* still waits and every slot is taken
C27_Witness ==
    /\ Len(queue) > 0
    /\ running = concurrency
    /\ \E t, u \in DOMAIN task :
          /\ fnKind[t] = "reject" /\ task[t] = "released"
          /\ task[u] = "thrown"

(***************************************************************************)
(* Order and completeness of the rendered tree                             *)
(***************************************************************************)
\* a < b in lexicographic order: character by character in code-unit
\* order, a proper prefix first
RECURSIVE LexLess(_, _)
LexLess(a, b) ==
    IF b = <<>> THEN FALSE
    ELSE IF a = <<>> THEN TRUE
    ELSE IF a[1] = b[1] THEN LexLess(Tail(a), Tail(b))
    ELSE CodeUnit(a[1]) < CodeUnit(b[1])
\* the lines i < j stand for entries of the same directory
Siblings(L, i, j) ==
    /\ i < j
    /\ Depth(L[i]) = Depth(L[j])
    /\ \A m \in (i + 1)..(j - 1) : Depth(L[m]) > Depth(L[i])

\* C24: at every level of the rendered tree the sibling entries appear in
\* lexicographic order of their names, also for names with '-' or '.' next
\* to a directory whose name is a prefix of theirs and for decimal names
C24_SiblingsInNameOrder ==
    tree.state = "resolved"
    => \A i, j \in 2..Len(tree.lines) :
          Siblings(tree.lines, i, j)
          => LexLess(NameOf(tree.lines[i]), NameOf(tree.lines[j]))

\* the relative paths the tree is to show: every non-empty prefix of the
\* relative path of a file that is to be admitted
ExpectedEntries ==
    UNION {{SubSeq(r, 1, n) : n \in 1..Len(r)} :
             r \in {relative(options.baseIgnorePath, p) :
                      p \in TreeExpectedFiles}}

\* C25: the rendered tree has exactly one line for every distinct non-empty
\* prefix of the relative path of an admitted file, also when a file is
\* reached from several overlapping inputs, and no line for a directory
\* without an admitted descendant
C25_OneLinePerEntry ==
    tree.state = "resolved"
    => LET L == tree.lines
       IN  /\ {LinePath(L, i) : i \in 2..Len(L)} = ExpectedEntries
           /\ \A i, j \in 2..Len(L) : LinePath(L, i) = LinePath(L, j) => i = j

(***************************************************************************)
(* The output blocks                                                       *)
(***************************************************************************)
\* the texts one file's block is made of: five, or six in the XML form
BlockTexts == IF options.claudeXml THEN 6 ELSE 5
\* the position of the k-th text of the n-th block
BlockAt(n, k) == (n - 1) * BlockTexts + k

\* C28: the texts of one file's block (header, content, trailer) are
\* written contiguously: under every interleaving of the branches no text
\* of another file lies between the first and the last text of a block;
\* the sink is the blocks of the printed files, whole and in the order of
\* the printer calls, each with its path in the header and its content
C28_BlocksContiguous ==
    /\ \A i, k \in 1..Len(sink) :
          (i < k /\ sink[i].file = sink[k].file)
          => \A j \in i..k : sink[j].file = sink[i].file
    /\ Len(sink) = BlockTexts * Len(printed)
    /\ \A n \in 1..Len(printed) :
          /\ \A k \in 1..BlockTexts : sink[BlockAt(n, k)].file = printed[n]
          /\ IF options.claudeXml
             THEN sink[BlockAt(n, 2)].text
                  = <<"<source>", "/">> \o arrayJoin(printed[n], "/")
                    \o <<"</source>">>
             ELSE sink[BlockAt(n, 1)].text
                  = <<"/">> \o arrayJoin(printed[n], "/")
          /\ ~ options.lineNumbers
             => sink[BlockAt(n, IF options.claudeXml THEN 4 ELSE 3)].text
                = fileContent(printed[n])
\* in the XML form b.txt, started after a.txt, was read first: its six
\* texts are followed by the six of d.txt and the six of a.txt
C28_Witness ==
    /\ options.claudeXml
    /\ fs = FsSort
    /\ printed = << <<w, b_txt>>, <<w, c_sub, d_txt>>, <<w, a_txt>> >>
    /\ Len(sink) = 18
    /\ sink[13].text = <<"<document index=\"", "3", "\">">>

(***************************************************************************)
(* A run of the command                                                    *)
(***************************************************************************)
\* run has built the options of a processPath call
Traversing == main.phase \in {"process", "done"} /\ started # <<>>
\* the loop of run is over
RunDone == main.phase = "done"
\* the common ancestor of the inputs: one directory is its own, one file
\* (or missing path) has its parent, several inputs have the longest list
\* of leading segments they share
InputAncestor ==
    LET S == Range(main.paths)
    IN  IF Cardinality(S) = 1
        THEN LET p == CHOOSE q \in S : TRUE
             IN  IF p \in DOMAIN fs /\ fs[p] = "dir" THEN p
                 ELSE SubSeq(p, 1, Len(p) - 1)
        ELSE CommonPrefix(S)
\* the rules written in the .gitignore of the directory dir
RulesIn(dir) ==
    IF gitignore[dir] = ENOENT THEN <<>> ELSE parseRules(gitignore[dir])

\* C23: the .gitignore applied to the traversal is the one of the common
\* ancestor of the inputs, not the one of the working directory, and that
\* directory is the base the relative paths given to the rules are taken
\* from
C23_GitignoreOfCommonAncestor ==
    Traversing
    => /\ options.baseIgnorePath = InputAncestor
       /\ ~ argv.ignoreGitignore => options.mainIg = RulesIn(InputAncestor)

\* no stat, listing or read has failed
NoIoError == \A p \in DOMAIN fs : ~ IoFailed(p)
\* the run was made with --tree and is over without a failed operation
TreeRunDone == RunDone /\ argv.tree /\ NoIoError
\* the files the tree lists and the files whose content was written
TreeFiles == Range(tree.fileSet)
EmittedFiles == Range(printed)

C29_TreeListsEmittedFiles ==
    TreeRunDone => TreeFiles = EmittedFiles

\* C30: across a run the content of a file is emitted at most once and the
\* file is counted at most once in foundFiles, also when inputs overlap
C30_EmittedAndCountedOnce ==
    /\ \A i, j \in 1..Len(printed) : printed[i] = printed[j] => i = j
    /\ stats.foundFiles <= Cardinality(EmittedFiles)

\* paths the ignore package refuses to test: '', '.', '..', '../build' and
\* '/build'
RefusedPaths ==
    { <<>>, <<Dot>>, <<DotDot>>, <<DotDot, build>>, << <<>>, build >> }
\* p is the base or does not lie below it: its base-relative path is '.'
\* or starts with '..'
OutsideBase(p) == ~ Below(options.baseIgnorePath, p)

\* C22: the rule set never throws and fails open.  The matcher loadIgnore
\* returned (empty, loaded from the file or bypassed by the flag) answers
\* false for the empty string, '.', a path leading out of the base and an
\* absolute path; and a path whose base-relative path the matcher refuses
\* is never dropped as ignored by processPath, which goes on with the
\* remaining filters
C22_IgnoreFailsOpen ==
    /\ [](options # <<>>
          => \A rel \in RefusedPaths : ~ ignores(options.mainIg, rel))
    /\ [][\A p \in DOMAIN call :
            (StatOkStep(p) /\ OutsideBase(p))
            => /\ <<"skipGitignore", p>> \notin log'
               /\ ~ (HasDotName(p) /\ ~ options.includeHidden)
                  => TypeStages(p)
      ]_vars
\* run from /w/build, whose .gitignore names 'build', on the input /w: the
\* rules are loaded, /w ('..'), /w/build ('.') and /w/note.txt
\* ('../note.txt') were not dropped, and note.txt and x.js are printed
C22_Witness ==
    /\ RunDone
    /\ cwd = <<w, build>>
    /\ main.paths = << <<w>> >>
    /\ options.mainIg # <<>>
    /\ <<"skipGitignore", <<w, build>> >> \notin log
    /\ {<<w, note_txt>>, <<w, build, x_js>>} \subseteq EmittedFiles
====
